---- MODULE Spec2Model ----
(***************************************************************************)
(* Model of the zm_ai event poller (poll_zm_for_events.py) and of the      *)
(* export progress counter (zm_export.py).                                 *)
(*                                                                         *)
(* Time is counted in abstract units; one event is one NVR recording.      *)
(***************************************************************************)
EXTENDS Integers, Sequences, FiniteSets, TLC

\* ---------------------------------------------------------------------------
\* Bounds of the model and scaled configuration values
\* ---------------------------------------------------------------------------
MaxEvents == 2
MaxLogins == 3
MaxChain == 4
MaxQueued == 2
ClipChunks == 2
MaxTime == 2
NumCams == 1
THRESHOLD == 1
TIME_WINDOW == 1
LOOKBACK == 2
TOKEN_LIFETIME == 2
DayLen == 2

EventIds == 1..MaxEvents
Cams == 1..NumCams
Times == 0..MaxTime

\* ---------------------------------------------------------------------------
\* State
\* ---------------------------------------------------------------------------
VARIABLES
    now,              \* wall clock
    nvr,              \* the recorder's event table: id -> record
    pc,               \* position of the poller process
    events,           \* the listed records "for ev in events" has still to visit
    pend_list,        \* the ids "for eid in list(pending_events)" has still to visit
    processed_ids,    \* dict eid -> timestamp
    pending_events,   \* ordered dict, as a sequence of listed records
    file_timestamps,  \* per-camera sliding window
    ev,               \* loop variable of line 304, still bound after the loop
    store_file,       \* downloaded_ids.txt: sequence of lines (token sequences)
    access_token, TOKEN_EXPIRY, AUTH_DISABLED,
    evaluated         \* history: the sliding-window evaluations in order, each with
                      \* the outcome of its download ("limited" when none was made)

pollvars == <<now, nvr, pc, events, pend_list, processed_ids, pending_events,
              file_timestamps, ev, store_file, access_token, TOKEN_EXPIRY,
              AUTH_DISABLED, evaluated>>

\* state of the other components of the repository, modelled further down
VARIABLES
    written,          \* history: the dict the store file was last written from
    login_log,        \* history: the login requests login_bauth sent, each with the
                      \* clock value and the answer
    x_pc,             \* position of one export request (events_videos_export)
    x_req,            \* its parameters: download, concat, number of retained events
    x_i,              \* number of events the download loop has handled
    stats,            \* attempted / downloaded / failed / bytes of _download_and_trim
    x_chunks,         \* chunks received of the clip being streamed
    snap,             \* the job's snapshot file: the last snapshot _counter_write wrote
    last_done,        \* last_done of _run_ffmpeg_with_progress
    ff_ok,            \* what _run_ffmpeg_with_progress returned
    fs_names,         \* the temp directory: file name -> inode, 0 when the name is absent
    inodes,           \* inode -> content, a sequence of characters
    next_inode,       \* the next unused inode
    w_pc,             \* per export request: its position inside _counter_write
    w_k,              \* per export request: number of _counter_write calls begun
    w_fd,             \* per export request: the inode its open file handle refers to
    r_pc,             \* position of one events_download_counter request
    r_fd,             \* the inode its read_text has opened
    r_obs,            \* what its read returned
    produced,         \* history: the snapshots handed to write_text so far
    k_pc,             \* position of one export request, seen with its clips
    k_req,            \* the parameters of that request
    k_wraps,          \* the listed events the collection loop has still to visit
    events_out,       \* the retained events
    k_todo,           \* the retained events the download loop has still to visit
    dl_stats,         \* stats of _download_and_trim, downloaded_now included
    k_files,          \* the clips in the temp directory: event id -> kept segment
    dl_log,           \* history: the download requests in order, each with its outcome
    concat_info,      \* what _concat_downloads returns, with the list it built
    payload           \* the response of the request

exportvars == <<x_pc, x_req, x_i, stats, x_chunks, snap, last_done, ff_ok>>

countervars == <<fs_names, inodes, next_inode, w_pc, w_k, w_fd, r_pc, r_fd, r_obs, produced>>

\* state of the audio tempo chain and of the alarm-queue directory, modelled at the end
VARIABLES
    tempo,            \* the atempo chain being built: position, speed, s and chain
    aq_files,         \* the alarm-queue directory: file name (event id) -> inode
    aq_inodes,        \* inode -> chunks written, open for writing, complete, mtime
    aq_dl,            \* the poller's download_event_video: position, event, inode,
                      \* chunks still to come, and the clock the mtimes are taken from
    aq_worker         \* the frame worker: position and the file it took

auxvars == <<tempo, aq_files, aq_inodes, aq_dl, aq_worker>>

clipvars == <<k_pc, k_req, k_wraps, events_out, k_todo, dl_stats, k_files, dl_log,
              concat_info, payload>>

nonpollvars == <<written, login_log, auxvars, exportvars, countervars, clipvars>>

vars == <<pollvars, nonpollvars>>

\* ---------------------------------------------------------------------------
\* Helpers
\* ---------------------------------------------------------------------------
NoEvent == [exists |-> FALSE, MonitorId |-> 1, StartDateTime |-> 0, closed |-> FALSE,
            has_sdt |-> TRUE]
\* line 221, e.get("StartDateTime") of a record that has no such field: None
NullStart == -1
NoEv == [Id |-> 0, MonitorId |-> 0, StartDateTime |-> 0, EndDateTime |-> FALSE]

\* dict assignment d[k] = v
DictSet(d, k, v) == [x \in (DOMAIN d) \cup {k} |-> IF x = k THEN v ELSE d[x]]

\* pending_events as an insertion-ordered dict
PendingPop(p, eid) == SelectSeq(p, LAMBDA r : r.Id # eid)
PendingSet(p, e) ==
    IF \E i \in DOMAIN p : p[i].Id = e.Id
    THEN [i \in DOMAIN p |-> IF p[i].Id = e.Id THEN e ELSE p[i]]
    ELSE Append(p, e)

\* record built by get_events_in_range_by_start for one event
ListedRecord(eid) ==
    [Id |-> eid, MonitorId |-> nvr[eid].MonitorId,
     StartDateTime |-> IF nvr[eid].has_sdt THEN nvr[eid].StartDateTime ELSE NullStart,
     EndDateTime |-> nvr[eid].closed]

\* the events the listing query matches: StartTime >= now - lookback
ListedIds == {e \in EventIds : nvr[e].exists /\ nvr[e].StartDateTime >= now - LOOKBACK}

\* sort=StartTime, direction=desc; the order of equal start times is the server's
SortedDesc(s) == \A i, j \in DOMAIN s : i < j => nvr[s[i]].StartDateTime >= nvr[s[j]].StartDateTime
Listings ==
    LET n == Cardinality(ListedIds) IN
    {s \in [1..n -> ListedIds] : (\A i, j \in 1..n : i # j => s[i] # s[j]) /\ SortedDesc(s)}

\* the pages are fetched one after the other (lines 199-228): when a recording
\* starts in between, the last event of a page is returned again by the next
WithRepeat(s) ==
    {[i \in 1..(Len(s) + 1) |-> IF i <= k THEN s[i] ELSE s[i - 1]] : k \in DOMAIN s}
PagedListings == Listings \cup UNION {WithRepeat(s) : s \in Listings}

get_events_in_range_by_start(s) == [i \in DOMAIN s |-> ListedRecord(s[i])]

\* ---------------------------------------------------------------------------
\* login_bauth
\* ---------------------------------------------------------------------------
\* line 91 with the comparison of the expiry turned round
NeedLoginFlipped == ~((access_token # "None" /\ now > TOKEN_EXPIRY) \/ AUTH_DISABLED)
\* line 91: the early return is not taken
NeedLogin == ~((access_token # "None" /\ now < TOKEN_EXPIRY) \/ AUTH_DISABLED)
LoginOutcomes == IF NeedLogin THEN {"token", "disabled", "fail", "raise"} ELSE {"cached"}

\* line 125 sets the expiry ten years ahead; line 91 never reads it again once
\* AUTH_DISABLED is set, so it is kept as one value beyond every clock value
FarFuture == MaxTime + 10 * TOKEN_LIFETIME

login_bauth(o) ==
    CASE o = "token"    -> [tok |-> "tok", exp |-> now + TOKEN_LIFETIME, dis |-> AUTH_DISABLED]
      [] o = "disabled" -> [tok |-> "AUTH_DISABLED", exp |-> FarFuture, dis |-> TRUE]
      [] OTHER          -> [tok |-> access_token, exp |-> TOKEN_EXPIRY, dis |-> AUTH_DISABLED]

SetAuth(a) ==
    /\ access_token' = a.tok
    /\ TOKEN_EXPIRY' = a.exp
    /\ AUTH_DISABLED' = a.dis

\* ---------------------------------------------------------------------------
\* Processed-ID store
\* ---------------------------------------------------------------------------
\* strftime("%Y-%m-%d %H:%M:%S"): a date token, a space, a time token
FormatTs(ts) == <<[kind |-> "date", v |-> ts \div DayLen], [kind |-> "time", v |-> ts % DayLen]>>

\* one line "<eid> <ts>", given as its whitespace-separated tokens
StoreLine(eid, ts) == <<[kind |-> "id", v |-> eid]>> \o FormatTs(ts)

\* order of processed_ids.items(): kept as ascending ids
RECURSIVE DictLines(_, _)
DictLines(d, ids) ==
    IF ids = {} THEN <<>>
    ELSE LET k == CHOOSE x \in ids : \A y \in ids : x <= y
         IN <<StoreLine(k, d[k])>> \o DictLines(d, ids \ {k})

cleanup_processed_ids(d) == DictLines(d, DOMAIN d)

\* datetime.strptime(s, "%Y-%m-%d %H:%M:%S") on a string given as its tokens:
\* it matches only a date token followed by whitespace and a time token
strptime(s) ==
    IF Len(s) = 2 /\ s[1].kind = "date" /\ s[2].kind = "time"
    THEN [ok |-> TRUE, t |-> s[1].v * DayLen + s[2].v]
    ELSE [ok |-> FALSE, t |-> 0]

RETENTION == 2 * LOOKBACK

RECURSIVE LoadLines(_, _, _)
LoadLines(lines, cutoff, ids) ==
    IF lines = <<>> THEN ids
    ELSE LET parts == Head(lines)          \* line.strip().split()
             rest == Tail(lines)
         IN IF Len(parts) # 2 THEN LoadLines(rest, cutoff, ids)
            ELSE LET dt == strptime(<<parts[2]>>)
                 IN IF dt.ok /\ dt.t >= cutoff
                    THEN LoadLines(rest, cutoff, DictSet(ids, parts[1].v, dt.t))
                    ELSE LoadLines(rest, cutoff, ids)

load_processed_ids(file, t) == LoadLines(file, t - RETENTION, <<>>)

\* ---------------------------------------------------------------------------
\* Sliding-window filter (lines 319-326 and 362-367)
\* ---------------------------------------------------------------------------
PruneWindow(w, event_time) == SelectSeq(w, LAMBDA t : t >= event_time - TIME_WINDOW)
SlideWindow(w, event_time) == Append(PruneWindow(w, event_time), event_time)
RateLimited(w) == Len(w) > THRESHOLD

\* download_event_video: o is the outcome of its login, r of the video request
download_event_video(o, r) ==
    IF o = "raise" THEN "raise"
    ELSE IF login_bauth(o).tok = "None" THEN "notoken"
    ELSE r

\* login_bauth called a second time in the same step, after a first call left a
LoginOutcomesAfter(a) ==
    IF ~((a.tok # "None" /\ now < a.exp) \/ a.dis)
    THEN {"token", "disabled", "fail", "raise"} ELSE {"cached"}
login_after(a, o) ==
    CASE o = "token"    -> [tok |-> "tok", exp |-> now + TOKEN_LIFETIME, dis |-> a.dis]
      [] o = "disabled" -> [tok |-> "AUTH_DISABLED", exp |-> FarFuture, dis |-> TRUE]
      [] OTHER          -> a
download_after(a, o, r) ==
    IF o = "raise" THEN "raise"
    ELSE IF login_after(a, o).tok = "None" THEN "notoken"
    ELSE r

\* line 362: the timestamp of a pending event is read from ev, the variable the
\* events loop left bound to the last listed record
PendingEventTime(eid) == ev.StartDateTime

\* lines 317 and 354, every record taken as ended
EndedAlways(r) == TRUE
\* lines 317 and 354: the record has an end time
Ended(r) == r.EndDateTime

\* lines 314 and 341: "if eid in processed_ids"
AlreadyProcessedSkipNothing(eid) == FALSE
AlreadyProcessed(eid) == eid \in DOMAIN processed_ids

\* lines 329, 332, 370, 375: processed_ids[eid] = event_time.strftime(...)
MarkProcessedForgotten(d, eid, event_time) == d
MarkProcessed(d, eid, event_time) == DictSet(d, eid, event_time)

\* where the except clause leaves the loop
ExceptTargetReraise == "exited"
ExceptTarget == "sleep"

\* get_event_by_id: None, or the record of the event as the NVR has it now
get_event_by_id(eid, o, r) ==
    IF login_bauth(o).tok = "None" \/ r = "failed" THEN NoEv
    ELSE [Id |-> eid, MonitorId |-> nvr[eid].MonitorId, EndDateTime |-> nvr[eid].closed]

\* no tempo chain is being built, the alarm-queue directory is empty and idle
NoTempo == [pc |-> "idle", audio |-> FALSE, speed |-> 0, s |-> 0, chain |-> <<>>]
NoDownload == [pc |-> "idle", eid |-> 0, inode |-> 0, left |-> 0, clock |-> 0]
NoWorker == [pc |-> "scan", eid |-> 0, inode |-> 0]
AuxIdle ==
    /\ tempo = NoTempo
    /\ aq_files = <<>>
    /\ aq_inodes = <<>>
    /\ aq_dl = NoDownload
    /\ aq_worker = NoWorker

\* no export request is being served
NoSnap == [phase |-> "none", status |-> "none", total |-> 0, done |-> 0,
           want_concat |-> FALSE, overall_percent |-> 0, overall_status |-> "none"]
Requests == 1..2

CounterIdle ==
    /\ fs_names = [f \in {"p", "tmp"} |-> 0]
    /\ inodes = <<>>
    /\ next_inode = 1
    /\ w_pc = [w \in Requests |-> "idle"]
    /\ w_k = [w \in Requests |-> 0]
    /\ w_fd = [w \in Requests |-> 0]
    /\ r_pc = "idle"
    /\ r_fd = 0
    /\ r_obs = [kind |-> "none", content |-> <<>>]
    /\ produced = {}

NoRequest == [start |-> 0, end |-> 0, buffer |-> 0, chunk |-> 1, download |-> FALSE, trim |-> FALSE,
              concat |-> FALSE, speed |-> 0, fps |-> <<>>, size |-> <<>>]
NoStats == [attempted |-> 0, downloaded |-> 0, failed |-> 0, downloaded_now |-> <<>>]
\* disk: which of the list file ("list") and the output ("out") are in the temp directory
NoConcat == [enabled |-> FALSE, mode |-> "None", list |-> <<>>, disk |-> {}]
NoPayload == [count |-> 0, attempted |-> 0, downloaded |-> 0, failed |-> 0]

ClipIdle ==
    /\ k_pc = "idle"
    /\ k_req = NoRequest
    /\ k_wraps = [all |-> <<>>, page |-> <<>>, rest |-> <<>>, last |-> 0, meta |-> FALSE,
                  pages |-> 0]
    /\ events_out = <<>>
    /\ k_todo = <<>>
    /\ dl_stats = NoStats
    /\ k_files = <<>>
    /\ dl_log = <<>>
    /\ concat_info = NoConcat
    /\ payload = NoPayload

ExportIdle ==
    /\ x_pc = "idle"
    /\ x_req = [download |-> FALSE, concat |-> FALSE, n |-> 0]
    /\ x_i = 0
    /\ stats = [attempted |-> 0, downloaded |-> 0, failed |-> 0, bytes |-> 0]
    /\ x_chunks = 0
    /\ snap = NoSnap
    /\ last_done = -1
    /\ ff_ok = FALSE
    /\ CounterIdle
    /\ ClipIdle

\* ---------------------------------------------------------------------------
\* Initial state: a fresh installation, nothing recorded yet
\* ---------------------------------------------------------------------------
Init ==
    /\ now = 0
    /\ nvr = [e \in EventIds |-> NoEvent]
    /\ pc = "start"
    /\ events = <<>>
    /\ pend_list = <<>>
    /\ processed_ids = <<>>
    /\ pending_events = <<>>
    /\ file_timestamps = [c \in Cams |-> <<>>]
    /\ ev = NoEv
    /\ store_file = <<>>
    /\ access_token = "None"
    /\ TOKEN_EXPIRY = 1
    /\ AUTH_DISABLED = FALSE
    /\ evaluated = <<>>
    /\ written = <<>>
    /\ login_log = <<>>
    /\ AuxIdle
    /\ ExportIdle

\* ---------------------------------------------------------------------------
\* The recorder and the clock
\* ---------------------------------------------------------------------------
\* The poller consults the recorder in the listing query and in the re-fetch of
\* a pending event only: a recording that starts during a cycle is first seen
\* by the next listing, one that ends during a cycle can be seen by a re-fetch.
\* The clock moves while the loop sleeps.
RecorderVisible == pc \in {"start", "sleep", "pending"}

Tick ==
    /\ pc \in {"start", "sleep"}
    /\ now < MaxTime
    /\ now' = now + 1
    /\ UNCHANGED <<nvr, pc, events, pend_list, processed_ids, pending_events,
                   file_timestamps, ev, store_file, access_token, TOKEN_EXPIRY,
                   AUTH_DISABLED, evaluated>>
    /\ UNCHANGED nonpollvars

\* a camera starts recording: the next event id, open, starting now
NewEvent ==
    /\ pc \in {"start", "sleep"}
    /\ \E e \in EventIds, c \in Cams :
         /\ ~nvr[e].exists
         /\ \A x \in EventIds : x < e => nvr[x].exists
         /\ nvr' = [nvr EXCEPT ![e] = [exists |-> TRUE, MonitorId |-> c,
                                      StartDateTime |-> now, closed |-> FALSE,
                                      has_sdt |-> TRUE]]
    /\ UNCHANGED <<now, pc, events, pend_list, processed_ids, pending_events,
                   file_timestamps, ev, store_file, access_token, TOKEN_EXPIRY,
                   AUTH_DISABLED, evaluated>>
    /\ UNCHANGED nonpollvars

\* a recording ends
CloseEvent ==
    /\ RecorderVisible
    /\ \E e \in EventIds :
         /\ nvr[e].exists /\ ~nvr[e].closed
         /\ nvr' = [nvr EXCEPT ![e].closed = TRUE]
    /\ UNCHANGED <<now, pc, events, pend_list, processed_ids, pending_events,
                   file_timestamps, ev, store_file, access_token, TOKEN_EXPIRY,
                   AUTH_DISABLED, evaluated>>
    /\ UNCHANGED nonpollvars

\* ---------------------------------------------------------------------------
\* The poller process
\* ---------------------------------------------------------------------------
LoopStates == {"fetch", "events", "pending", "save", "except", "sleep"}

\* __main__: login_bauth() outside any try, then loop_monitor() loads the store
Start ==
    /\ pc = "start"
    /\ \E o \in LoginOutcomes :
         /\ SetAuth(login_bauth(o))
         /\ IF o = "raise"
            THEN pc' = "exited" /\ UNCHANGED processed_ids
            ELSE pc' = "fetch" /\ processed_ids' = load_processed_ids(store_file, now)
    /\ UNCHANGED <<now, nvr, events, pend_list, pending_events, file_timestamps,
                   ev, store_file, evaluated>>
    /\ UNCHANGED nonpollvars

\* line 301: the listing query; a failed request gives an empty list
FetchListing ==
    /\ pc = "fetch"
    /\ \E o \in LoginOutcomes :
         /\ SetAuth(login_bauth(o))
         /\ IF o = "raise"
            THEN pc' = "except" /\ UNCHANGED events
            ELSE /\ pc' = "events"
                 /\ \E r \in {get_events_in_range_by_start(s) : s \in PagedListings} \cup {<<>>} :
                      events' = r
    /\ UNCHANGED <<now, nvr, pend_list, processed_ids, pending_events, file_timestamps,
                   ev, store_file, evaluated>>
    /\ UNCHANGED nonpollvars

\* lines 304-338: one iteration of "for ev in events"
ProcessEvent ==
    /\ pc = "events" /\ events # <<>>
    /\ LET e == Head(events)
           eid == e.Id
           cam_id == e.MonitorId
           event_time == e.StartDateTime
           win == SlideWindow(file_timestamps[cam_id], event_time)
       IN /\ ev' = e
          /\ IF AlreadyProcessed(eid)
             THEN /\ pc' = "events"
                  /\ UNCHANGED <<processed_ids, pending_events, file_timestamps,
                                 access_token, TOKEN_EXPIRY, AUTH_DISABLED, evaluated>>
             ELSE IF Ended(e) /\ event_time = NullStart
             THEN /\ pc' = "except"                        \* line 319: strptime(None) raises
                  /\ UNCHANGED <<processed_ids, pending_events, file_timestamps,
                                 access_token, TOKEN_EXPIRY, AUTH_DISABLED, evaluated>>
             ELSE IF Ended(e)
             THEN /\ file_timestamps' = [file_timestamps EXCEPT ![cam_id] = win]
                  /\ processed_ids' = MarkProcessed(processed_ids, eid, event_time)
                  /\ IF RateLimited(win)
                     THEN /\ evaluated' = Append(evaluated, [Id |-> eid, cam |-> cam_id,
                                 t |-> event_time, via |-> "listing", res |-> "limited"])
                          /\ pc' = "events"
                          /\ UNCHANGED <<pending_events, access_token, TOKEN_EXPIRY, AUTH_DISABLED>>
                     ELSE /\ pending_events' = PendingPop(pending_events, eid)
                          /\ \E o \in LoginOutcomes, r \in {"ok", "failed"} :
                               /\ SetAuth(login_bauth(o))
                               /\ evaluated' = Append(evaluated, [Id |-> eid, cam |-> cam_id,
                                     t |-> event_time, via |-> "listing",
                                     res |-> download_event_video(o, r)])
                               /\ IF o = "raise"
                                  THEN pc' = "except"
                                  ELSE pc' = "events"
             ELSE /\ pending_events' = PendingSet(pending_events, e)
                  /\ pc' = "events"
                  /\ UNCHANGED <<processed_ids, file_timestamps, access_token, TOKEN_EXPIRY,
                                 AUTH_DISABLED, evaluated>>
    /\ events' = Tail(events)
    /\ UNCHANGED <<now, nvr, pend_list, store_file>>
    /\ UNCHANGED nonpollvars

\* line 340: the events loop is over, list(pending_events) is taken
EventsDone ==
    /\ pc = "events" /\ events = <<>>
    /\ pend_list' = [i \in DOMAIN pending_events |-> pending_events[i].Id]
    /\ pc' = "pending"
    /\ UNCHANGED <<now, nvr, events, processed_ids, pending_events, file_timestamps,
                   ev, store_file, access_token, TOKEN_EXPIRY, AUTH_DISABLED, evaluated>>
    /\ UNCHANGED nonpollvars

\* lines 340-379: one iteration of "for eid in list(pending_events)"
ProcessPending ==
    /\ pc = "pending" /\ pend_list # <<>>
    /\ LET eid == Head(pend_list) IN
       IF AlreadyProcessed(eid)
       THEN /\ pending_events' = PendingPop(pending_events, eid)
            /\ pc' = "pending"
            /\ UNCHANGED <<processed_ids, file_timestamps, access_token, TOKEN_EXPIRY,
                           AUTH_DISABLED, evaluated>>
       ELSE \E o \in LoginOutcomes, r \in {"ok", "failed"} :
            LET ev_updated == get_event_by_id(eid, o, r)
                auth1 == login_bauth(o)
            IN IF o = "raise"
               THEN /\ SetAuth(auth1)
                    /\ pc' = "except"
                    /\ UNCHANGED <<processed_ids, pending_events, file_timestamps, evaluated>>
               ELSE IF ev_updated.Id = 0
               THEN /\ SetAuth(auth1)
                    /\ pending_events' = PendingPop(pending_events, eid)
                    /\ pc' = "pending"
                    /\ UNCHANGED <<processed_ids, file_timestamps, evaluated>>
               ELSE IF ~Ended(ev_updated)
               THEN /\ SetAuth(auth1)
                    /\ pc' = "pending"
                    /\ UNCHANGED <<processed_ids, pending_events, file_timestamps, evaluated>>
               ELSE IF PendingEventTime(eid) = NullStart
               THEN /\ SetAuth(auth1)
                    /\ pc' = "except"                      \* line 362: strptime(None) raises
                    /\ UNCHANGED <<processed_ids, pending_events, file_timestamps, evaluated>>
               ELSE LET cam_id == ev_updated.MonitorId
                        event_time == PendingEventTime(eid)
                        win == SlideWindow(file_timestamps[cam_id], event_time)
                    IN /\ file_timestamps' = [file_timestamps EXCEPT ![cam_id] = win]
                       /\ processed_ids' = MarkProcessed(processed_ids, eid, event_time)
                       /\ pending_events' = PendingPop(pending_events, eid)
                       /\ IF RateLimited(win)
                          THEN /\ SetAuth(auth1)
                               /\ evaluated' = Append(evaluated, [Id |-> eid, cam |-> cam_id,
                                     t |-> event_time, via |-> "pending", res |-> "limited"])
                               /\ pc' = "pending"
                          ELSE \E o2 \in LoginOutcomesAfter(auth1), r2 \in {"ok", "failed"} :
                               /\ SetAuth(login_after(auth1, o2))
                               /\ evaluated' = Append(evaluated, [Id |-> eid, cam |-> cam_id,
                                     t |-> event_time, via |-> "pending",
                                     res |-> download_after(auth1, o2, r2)])
                               /\ IF o2 = "raise"
                                  THEN pc' = "except"
                                  ELSE pc' = "pending"
    /\ pend_list' = Tail(pend_list)
    /\ UNCHANGED <<now, nvr, events, ev, store_file>>
    /\ UNCHANGED nonpollvars

\* the pending loop is over
PendingDone ==
    /\ pc = "pending" /\ pend_list = <<>>
    /\ pc' = "save"
    /\ UNCHANGED <<now, nvr, events, pend_list, processed_ids, pending_events,
                   file_timestamps, ev, store_file, access_token, TOKEN_EXPIRY,
                   AUTH_DISABLED, evaluated>>
    /\ UNCHANGED nonpollvars

\* events and pend_list are dead once the two loops are over (lines 301 and
\* 340 assign them before their next use): they are cleared when the cycle ends
ClearLoopLocals ==
    /\ events' = <<>>
    /\ pend_list' = <<>>

\* line 381: the store is rewritten, or open()/write() raises
Save ==
    /\ pc = "save"
    /\ \/ store_file' = cleanup_processed_ids(processed_ids) /\ pc' = "sleep"
       \/ pc' = "except" /\ UNCHANGED store_file
    /\ ClearLoopLocals
    /\ UNCHANGED <<now, nvr, processed_ids, pending_events,
                   file_timestamps, ev, access_token, TOKEN_EXPIRY, AUTH_DISABLED,
                   evaluated>>
    /\ UNCHANGED nonpollvars

\* lines 383-390: "except Exception" logs the trace and falls through to the sleep
Except ==
    /\ pc = "except"
    /\ pc' = ExceptTarget
    /\ ClearLoopLocals
    /\ UNCHANGED <<now, nvr, processed_ids, pending_events,
                   file_timestamps, ev, store_file, access_token, TOKEN_EXPIRY,
                   AUTH_DISABLED, evaluated>>
    /\ UNCHANGED nonpollvars

\* line 392: time.sleep(CHECK_INTERVAL_SECONDS), then the next "while True" round
Sleep ==
    /\ pc = "sleep"
    /\ pc' = "fetch"
    /\ UNCHANGED <<now, nvr, events, pend_list, processed_ids, pending_events,
                   file_timestamps, ev, store_file, access_token, TOKEN_EXPIRY,
                   AUTH_DISABLED, evaluated>>
    /\ UNCHANGED nonpollvars

Poller ==
    \/ Start
    \/ FetchListing
    \/ ProcessEvent
    \/ EventsDone
    \/ ProcessPending
    \/ PendingDone
    \/ Save
    \/ Except
    \/ Sleep

Next ==
    \/ Tick
    \/ NewEvent
    \/ CloseEvent
    \/ Poller

Spec == Init /\ [][Next]_vars

\* ---------------------------------------------------------------------------
\* Properties of the poller
\* ---------------------------------------------------------------------------
StartOf(e) == nvr[e].StartDateTime
CamOf(e) == nvr[e].MonitorId
EvaluatedIds == {evaluated[i].Id : i \in DOMAIN evaluated}
EvalCount(e) == Cardinality({i \in DOMAIN evaluated : evaluated[i].Id = e})
TriggerCount(e) ==
    Cardinality({i \in DOMAIN evaluated : evaluated[i].Id = e /\ evaluated[i].res # "limited"})
Triggered(e) == TriggerCount(e) > 0
Suppressed(e) == \E i \in DOMAIN evaluated : evaluated[i].Id = e /\ evaluated[i].res = "limited"
ViaListing(e) == \A i \in DOMAIN evaluated : evaluated[i].Id = e => evaluated[i].via = "listing"

\* C1: per camera, at most THRESHOLD of the events whose start times lie within
\* one span of TIME_WINDOW trigger a download; an evaluated event that has at most
\* THRESHOLD evaluated events of its camera (itself included) starting within
\* TIME_WINDOW of its own start, before or after, is downloaded; every evaluated
\* event is marked processed.
C1_RateLimit ==
    /\ \A c \in Cams, s \in Times :
         Cardinality({e \in EvaluatedIds : Triggered(e) /\ CamOf(e) = c
                          /\ s <= StartOf(e) /\ StartOf(e) <= s + TIME_WINDOW}) <= THRESHOLD
    /\ \A e \in EvaluatedIds :
         Cardinality({x \in EvaluatedIds : CamOf(x) = CamOf(e)
                          /\ StartOf(e) - TIME_WINDOW <= StartOf(x)
                          /\ StartOf(x) <= StartOf(e) + TIME_WINDOW}) <= THRESHOLD
         => Triggered(e)
    /\ \A e \in EvaluatedIds : e \in DOMAIN processed_ids

\* C2: when the only events evaluated for a camera are THRESHOLD+1 events that
\* the listing returned closed, with distinct start times inside one TIME_WINDOW,
\* the one with the latest start time is the suppressed one and the others
\* trigger downloads.
C2_LatestSuppressed ==
    \A c \in Cams :
        LET S == {e \in EvaluatedIds : CamOf(e) = c} IN
        ( /\ Cardinality(S) = THRESHOLD + 1
          /\ \A e \in S : ViaListing(e) /\ EvalCount(e) = 1
          /\ \A e, x \in S : e # x => StartOf(e) # StartOf(x)
          /\ \A e, x \in S : StartOf(e) - StartOf(x) <= TIME_WINDOW )
        => \A e \in S :
              /\ e \in DOMAIN processed_ids
              /\ Suppressed(e) <=> (\A x \in S : StartOf(x) <= StartOf(e))
              /\ Triggered(e) <=> (\E x \in S : StartOf(x) > StartOf(e))

\* C3: a camera's window holds exactly the evaluated timestamps of that camera
\* that lie within TIME_WINDOW of the most recently evaluated one.
EvalOfCam(c) == SelectSeq(evaluated, LAMBDA r : r.cam = c)
CountIn(w, x) == Cardinality({i \in DOMAIN w : w[i] = x})
C3_WindowExact ==
    \A c \in Cams :
        LET h == EvalOfCam(c) IN
        h # <<>> =>
           LET last == h[Len(h)].t IN
           \A x \in Times :
              CountIn(file_timestamps[c], x) =
                 IF last - TIME_WINDOW <= x /\ x <= last + TIME_WINDOW
                 THEN Cardinality({i \in DOMAIN h : h[i].t = x})
                 ELSE 0

\* C4: an event is inserted into the window exactly once and triggers at most
\* one download; a listed closed event that is already processed changes
\* neither the window, nor the processed ids, nor the pending set.
C4_Idempotent ==
    [][ /\ \A e \in EventIds :
             /\ EvalCount(e)' <= 1
             /\ TriggerCount(e)' <= 1
             /\ (e \in DOMAIN processed_ids') <=> (EvalCount(e)' = 1)
        /\ ( pc = "events" /\ events # <<>> /\ Head(events).EndDateTime
               /\ Head(events).Id \in DOMAIN processed_ids )
           => UNCHANGED <<file_timestamps, processed_ids, pending_events, evaluated>>
      ]_vars

\* a closed event that was pending before it was evaluated is listed again
C4_Witness ==
    /\ pc = "events" /\ events # <<>> /\ Head(events).EndDateTime
    /\ \E i \in DOMAIN evaluated :
          evaluated[i].Id = Head(events).Id /\ evaluated[i].via = "pending"

\* C5: when a download fails, the event is marked processed and its timestamp
\* is in the window; a processed event stays processed; no event triggers more
\* than one download.
DownloadFailures == {"failed", "notoken", "raise"}
C5_AtMostOnce ==
    [][ /\ ( evaluated' # evaluated /\ evaluated'[Len(evaluated')].res \in DownloadFailures )
           => LET r == evaluated'[Len(evaluated')] IN
              /\ r.Id \in DOMAIN processed_ids'
              /\ \E i \in DOMAIN file_timestamps'[r.cam] : file_timestamps'[r.cam][i] = r.t
        /\ \A e \in DOMAIN processed_ids : e \in DOMAIN processed_ids'
        /\ \A e \in EventIds : TriggerCount(e)' <= 1
      ]_vars

\* an event whose download failed is listed again in a later cycle
C5_Witness ==
    /\ pc = "events" /\ events # <<>>
    /\ \E i \in DOMAIN evaluated :
          evaluated[i].Id = Head(events).Id /\ evaluated[i].res \in DownloadFailures

\* C7: once the loop runs it never leaves; the except clause leads to the sleep
\* and the sleep to the next listing.
C7_LoopNeverExits ==
    [][ /\ pc \in LoopStates => pc' \in LoopStates
        /\ pc = "except" => pc' = "sleep"
        /\ pc = "sleep" => pc' \in {"sleep", "fetch"}
      ]_vars

\* a cycle is running after cycles that failed at the login of a download
C7_Witness ==
    /\ pc = "events"
    /\ \E i \in DOMAIN evaluated : evaluated[i].res = "raise"

\* ---------------------------------------------------------------------------
\* The processed-ID store on its own: a dict is written by cleanup_processed_ids
\* and, after the process was stopped for some time, read by load_processed_ids
\* ---------------------------------------------------------------------------
StoreMaxTime == MaxTime + RETENTION + 1
StoreTimes == 0..StoreMaxTime
StoreDicts(t) == UNION {[S -> 0..t] : S \in SUBSET EventIds}

StoreInit ==
    /\ now \in StoreTimes
    /\ processed_ids \in StoreDicts(now)
    /\ pc = "store_mem"
    /\ nvr = [e \in EventIds |-> NoEvent]
    /\ events = <<>>
    /\ pend_list = <<>>
    /\ pending_events = <<>>
    /\ file_timestamps = [c \in Cams |-> <<>>]
    /\ ev = NoEv
    /\ store_file = <<>>
    /\ access_token = "None"
    /\ TOKEN_EXPIRY = 1
    /\ AUTH_DISABLED = FALSE
    /\ evaluated = <<>>
    /\ written = <<>>
    /\ login_log = <<>>
    /\ AuxIdle
    /\ ExportIdle

\* line 381 / lines 179-182
StoreWrite ==
    /\ pc = "store_mem"
    /\ store_file' = cleanup_processed_ids(processed_ids)
    /\ written' = processed_ids
    /\ pc' = "store_file"
    /\ UNCHANGED <<login_log, auxvars, exportvars, countervars, clipvars>>
    /\ UNCHANGED <<now, nvr, events, pend_list, processed_ids, pending_events,
                   file_timestamps, ev, access_token, TOKEN_EXPIRY, AUTH_DISABLED, evaluated>>

\* the process is down while time passes
StoreWait ==
    /\ pc = "store_file"
    /\ now < StoreMaxTime
    /\ now' = now + 1
    /\ UNCHANGED <<nvr, pc, events, pend_list, processed_ids, pending_events, file_timestamps,
                   ev, store_file, access_token, TOKEN_EXPIRY, AUTH_DISABLED, evaluated, written,
                   login_log, auxvars, exportvars, countervars, clipvars>>

\* line 293 / lines 155-173, at the restart
StoreLoad ==
    /\ pc = "store_file"
    /\ processed_ids' = load_processed_ids(store_file, now)
    /\ pc' = "store_loaded"
    /\ UNCHANGED <<now, nvr, events, pend_list, pending_events, file_timestamps,
                   ev, store_file, access_token, TOKEN_EXPIRY, AUTH_DISABLED, evaluated, written,
                   login_log, auxvars, exportvars, countervars, clipvars>>

StoreNext ==
    \/ StoreWrite
    \/ StoreWait
    \/ StoreLoad

SpecStore == StoreInit /\ [][StoreNext]_vars

\* C6: what load_processed_ids returns after cleanup_processed_ids has every
\* written entry within the retention horizon, with its timestamp, and no
\* written entry older than the horizon.
C6_RoundTrip ==
    pc = "store_loaded" =>
       \A e \in DOMAIN written :
          IF written[e] >= now - RETENTION
          THEN e \in DOMAIN processed_ids /\ processed_ids[e] = written[e]
          ELSE e \notin DOMAIN processed_ids

\* ---------------------------------------------------------------------------
\* Export pipeline (zm_export.py): the progress snapshots of one export request
\* that carries a job id
\* ---------------------------------------------------------------------------
MaxClips == 3
MaxChunks == 1

None == <<>>

Max(a, b) == IF a >= b THEN a ELSE b
Min(a, b) == IF a <= b THEN a ELSE b

\* int(round(num / den)) for num >= 0, den > 0: Python rounds halves to even
RoundHalfEven(num, den) ==
    LET q == num \div den
        r == num % den
    IN IF 2 * r < den THEN q
       ELSE IF 2 * r > den THEN q + 1
       ELSE IF q % 2 = 0 THEN q ELSE q + 1

\* _with_overall_fields, lines 221-249: overall_percent
overall_percent(phase, total, done, want_concat) ==
    LET d == IF total > 0 THEN Max(0, Min(done, total)) ELSE 0   \* frac = d / t
        t == IF total > 0 THEN total ELSE 1
    IN IF ~want_concat THEN RoundHalfEven(100 * d, t)
       ELSE IF phase = "download" THEN RoundHalfEven(50 * d, t)
       ELSE IF phase = "concat" THEN RoundHalfEven(50 * t + 50 * d, t)
       ELSE 0

\* _with_overall_fields, lines 251-263: overall_status
overall_status(phase, status, want_concat) ==
    IF want_concat /\ phase = "download" /\ status = "done" THEN "running"
    ELSE IF phase = "concat" /\ status = "done" THEN "done"
    ELSE IF status = "error" THEN "error"
    ELSE status

\* _counter_write with the terminal status spelled "finished"
_counter_write_finished(phase, status, total, done, wc) ==
    LET want_concat == IF wc = None THEN FALSE ELSE wc[1]
        st == IF status = "done" THEN "finished" ELSE status
    IN [phase |-> phase, status |-> st, total |-> total, done |-> done,
        want_concat |-> want_concat,
        overall_percent |-> overall_percent(phase, total, done, want_concat),
        overall_status |-> overall_status(phase, st, want_concat)]

\* _counter_write, lines 60-96: wc is the want_concat argument, <<b>> when the
\* caller passes b and None (<<>>) when it does not; the data dicts of the
\* callers never carry the key
_counter_write(phase, status, total, done, wc) ==
    LET want_concat == IF wc = None THEN FALSE ELSE wc[1]
    IN [phase |-> phase, status |-> status, total |-> total, done |-> done,
        want_concat |-> want_concat,
        overall_percent |-> overall_percent(phase, total, done, want_concat),
        overall_status |-> overall_status(phase, status, want_concat)]

\* line 1042
want_concat_of(req) == req.download /\ req.concat

xframe == <<pollvars, written, login_log, auxvars, countervars, clipvars>>

ExportInit ==
    /\ now = 0
    /\ nvr = [e \in EventIds |-> NoEvent]
    /\ pc = "export"
    /\ events = <<>>
    /\ pend_list = <<>>
    /\ processed_ids = <<>>
    /\ pending_events = <<>>
    /\ file_timestamps = [c \in Cams |-> <<>>]
    /\ ev = NoEv
    /\ store_file = <<>>
    /\ access_token = "None"
    /\ TOKEN_EXPIRY = 1
    /\ AUTH_DISABLED = FALSE
    /\ evaluated = <<>>
    /\ written = <<>>
    /\ login_log = <<>>
    /\ AuxIdle
    /\ x_pc = "request"
    /\ x_req \in [download : BOOLEAN, concat : BOOLEAN, n : 0..MaxClips]
    /\ x_i = 0
    /\ stats = [attempted |-> 0, downloaded |-> 0, failed |-> 0, bytes |-> 0]
    /\ x_chunks = 0
    /\ snap = NoSnap
    /\ last_done = -1
    /\ ff_ok = FALSE
    /\ CounterIdle
    /\ ClipIdle

\* lines 565-572: nothing to download, or the "starting" snapshot
DlStart ==
    /\ x_pc = "request"
    /\ IF ~x_req.download \/ x_req.n = 0
       THEN x_pc' = "concat_gate" /\ UNCHANGED snap
       ELSE /\ snap' = _counter_write("download", "starting", x_req.n, 0, <<want_concat_of(x_req)>>)
            /\ x_pc' = "dl_file"
    /\ UNCHANGED <<x_req, x_i, stats, x_chunks, last_done, ff_ok, xframe>>

\* lines 574-583: the next event of the loop is announced
DlAnnounce ==
    /\ x_pc = "dl_file" /\ x_i < x_req.n
    /\ snap' = _counter_write("download", "downloading", x_req.n, stats.downloaded,
                              <<want_concat_of(x_req)>>)
    /\ x_pc' = "dl_get"
    /\ UNCHANGED <<x_req, x_i, stats, x_chunks, last_done, ff_ok, xframe>>

\* lines 585-595 and 619-628: the request fails before any byte is streamed
DlRequestFails ==
    /\ x_pc = "dl_get"
    /\ \E answered \in BOOLEAN :       \* a non-200 answer, or requests.get raises
         stats' = [stats EXCEPT !.attempted = IF answered THEN @ + 1 ELSE @,
                                !.failed = @ + 1]
    /\ snap' = _counter_write("download", "error", x_req.n, stats.downloaded,
                              <<want_concat_of(x_req)>>)
    /\ x_i' = x_i + 1
    /\ x_pc' = "dl_file"
    /\ UNCHANGED <<x_req, x_chunks, last_done, ff_ok, xframe>>

\* lines 586-587, 597: answer 200, the clip is opened for streaming
DlOpen ==
    /\ x_pc = "dl_get"
    /\ stats' = [stats EXCEPT !.attempted = @ + 1]
    /\ x_chunks' = 0
    /\ x_pc' = "dl_stream"
    /\ UNCHANGED <<x_req, x_i, snap, last_done, ff_ok, xframe>>

\* lines 598-607: one chunk
DlChunk ==
    /\ x_pc = "dl_stream" /\ x_chunks < MaxChunks
    /\ x_chunks' = x_chunks + 1
    /\ stats' = [stats EXCEPT !.bytes = @ + 1]
    /\ snap' = _counter_write("download", "downloading", x_req.n, stats.downloaded,
                              <<want_concat_of(x_req)>>)
    /\ UNCHANGED <<x_pc, x_req, x_i, last_done, ff_ok, xframe>>

\* lines 609-617: the clip is complete
DlFileDone ==
    /\ x_pc = "dl_stream"
    /\ stats' = [stats EXCEPT !.downloaded = @ + 1]
    /\ snap' = _counter_write("download", "file_done", x_req.n, stats.downloaded + 1,
                              <<want_concat_of(x_req)>>)
    /\ x_i' = x_i + 1
    /\ x_chunks' = 0
    /\ x_pc' = "dl_file"
    /\ UNCHANGED <<x_req, last_done, ff_ok, xframe>>

\* lines 619-628: the stream breaks
DlStreamFails ==
    /\ x_pc = "dl_stream"
    /\ stats' = [stats EXCEPT !.failed = @ + 1]
    /\ snap' = _counter_write("download", "error", x_req.n, stats.downloaded,
                              <<want_concat_of(x_req)>>)
    /\ x_i' = x_i + 1
    /\ x_chunks' = 0
    /\ x_pc' = "dl_file"
    /\ UNCHANGED <<x_req, last_done, ff_ok, xframe>>

\* lines 630-703: the loop is over; the trim writes no snapshot; "done" snapshot
DlEnd ==
    /\ x_pc = "dl_file" /\ x_i = x_req.n
    /\ snap' = _counter_write("download", "done", x_req.n, stats.downloaded,
                              <<want_concat_of(x_req)>>)
    /\ x_pc' = "concat_gate"
    /\ UNCHANGED <<x_req, x_i, stats, x_chunks, last_done, ff_ok, xframe>>

\* line 1187
ConcatGate ==
    /\ x_pc = "concat_gate"
    /\ x_pc' = IF x_req.download /\ x_req.concat THEN "cc_begin" ELSE "finally"
    /\ UNCHANGED <<x_req, x_i, stats, x_chunks, snap, last_done, ff_ok, xframe>>

\* lines 765-772: no clip was downloaded in this run
CcSkipped ==
    /\ x_pc = "cc_begin" /\ stats.downloaded = 0
    /\ snap' = _counter_write("concat", "skipped", 0, 0, None)
    /\ x_pc' = "finally"
    /\ UNCHANGED <<x_req, x_i, stats, x_chunks, last_done, ff_ok, xframe>>

\* lines 774-781: ffmpeg is not installed
CcNoFfmpeg ==
    /\ x_pc = "cc_begin" /\ stats.downloaded > 0
    /\ snap' = _counter_write("concat", "error", stats.downloaded, 0, None)
    /\ x_pc' = "finally"
    /\ UNCHANGED <<x_req, x_i, stats, x_chunks, last_done, ff_ok, xframe>>

\* lines 783-842: the list is built from the clips of this run, ffmpeg is announced
CcAnnounce ==
    /\ x_pc = "cc_begin" /\ stats.downloaded > 0
    /\ snap' = _counter_write("concat", "running", stats.downloaded, 0, None)
    /\ x_pc' = "cc_spawn"
    /\ UNCHANGED <<x_req, x_i, stats, x_chunks, last_done, ff_ok, xframe>>

\* lines 137-154: Popen, which may fail
CcSpawn ==
    /\ x_pc = "cc_spawn"
    /\ \/ x_pc' = "cc_run" /\ last_done' = -1 /\ UNCHANGED ff_ok
       \/ x_pc' = "cc_after" /\ ff_ok' = FALSE /\ UNCHANGED last_done
    /\ UNCHANGED <<x_req, x_i, stats, x_chunks, snap, xframe>>

\* lines 158-184: one out_time_ms line that passes the throttle and raises done
CcProgress ==
    /\ x_pc = "cc_run"
    /\ \E done \in 0..(stats.downloaded - 1) :
         /\ done > last_done
         /\ snap' = _counter_write("concat", "running", stats.downloaded, done, None)
         /\ last_done' = done
    /\ UNCHANGED <<x_pc, x_req, x_i, stats, x_chunks, ff_ok, xframe>>

\* lines 186-198: ffmpeg has exited, with return code 0 or not
CcFinish ==
    /\ x_pc = "cc_run"
    /\ \E ok \in BOOLEAN :
         /\ snap' = _counter_write("concat", IF ok THEN "done" ELSE "error",
                                   stats.downloaded, stats.downloaded, <<want_concat_of(x_req)>>)
         /\ ff_ok' = ok
    /\ x_pc' = "cc_after"
    /\ UNCHANGED <<x_req, x_i, stats, x_chunks, last_done, xframe>>

\* lines 200-211: reading the progress pipe raises
CcLoopFails ==
    /\ x_pc = "cc_run"
    /\ snap' = _counter_write("concat", "error", stats.downloaded, Max(0, last_done),
                              <<want_concat_of(x_req)>>)
    /\ ff_ok' = FALSE
    /\ x_pc' = "cc_after"
    /\ UNCHANGED <<x_req, x_i, stats, x_chunks, last_done, xframe>>

\* lines 924-945: the snapshot _concat_downloads writes after ffmpeg
CcAfter ==
    /\ x_pc = "cc_after"
    /\ snap' = IF ff_ok
               THEN _counter_write("concat", "done", stats.downloaded, stats.downloaded, None)
               ELSE _counter_write("concat", "error", stats.downloaded, 0, None)
    /\ x_pc' = "finally"
    /\ UNCHANGED <<x_req, x_i, stats, x_chunks, last_done, ff_ok, xframe>>

\* lines 1227-1236: the counter file is renamed away, the request returns
ExportFinally ==
    /\ x_pc = "finally"
    /\ snap' = NoSnap
    /\ x_pc' = "returned"
    /\ UNCHANGED <<x_req, x_i, stats, x_chunks, last_done, ff_ok, xframe>>

ExportNext ==
    \/ DlStart
    \/ DlAnnounce
    \/ DlRequestFails
    \/ DlOpen
    \/ DlChunk
    \/ DlFileDone
    \/ DlStreamFails
    \/ DlEnd
    \/ ConcatGate
    \/ CcSkipped
    \/ CcNoFfmpeg
    \/ CcAnnounce
    \/ CcSpawn
    \/ CcProgress
    \/ CcFinish
    \/ CcLoopFails
    \/ CcAfter
    \/ ExportFinally

SpecExport == ExportInit /\ [][ExportNext]_vars

\* C8: a snapshot never reports a smaller done than the snapshot it replaces
\* when both are of the same phase.
C8_DoneMonotone ==
    [][ (snap.phase # "none" /\ snap'.phase = snap.phase) => snap'.done >= snap.done ]_vars

\* C9: with concatenation requested the overall percentage is within [0,50] in
\* the download phase and within [50,100] in the concat phase; without it,
\* within [0,100].
C9_OverallRange ==
    snap.phase # "none" =>
       IF want_concat_of(x_req)
       THEN /\ snap.phase = "download" => (0 <= snap.overall_percent /\ snap.overall_percent <= 50)
            /\ snap.phase = "concat" => (50 <= snap.overall_percent /\ snap.overall_percent <= 100)
       ELSE 0 <= snap.overall_percent /\ snap.overall_percent <= 100

\* ---------------------------------------------------------------------------
\* The snapshot file of one job id (zm_export.py): export requests that carry
\* the same job id call _counter_write, a counter request reads the file
\* ---------------------------------------------------------------------------
MaxWrites == 2

\* line 93, json.dumps(data): the text of the k-th snapshot of request w; the
\* texts of different snapshots differ and so may their lengths
json_dumps(w, k) == [i \in 1..(1 + ((w + k) % 2)) |-> <<w, k>>]

\* write() through a handle whose position is 0: the text replaces the first
\* characters of the file, what lies behind them stays
write_at_0(old, text) ==
    [i \in 1..Max(Len(old), Len(text)) |-> IF i <= Len(text) THEN text[i] ELSE old[i]]

\* line 292, json.loads: only a whole snapshot text parses
json_loads_ok(c) == \E w \in Requests, k \in 1..MaxWrites : c = json_dumps(w, k)

\* lines 289-297: the answer of events_download_counter
events_download_counter(obs) ==
    IF obs.kind = "missing" THEN [available |-> FALSE, error |-> "", data |-> <<>>]
    ELSE IF obs.kind = "content" /\ json_loads_ok(obs.content)
         THEN [available |-> TRUE, error |-> "", data |-> obs.content]
         ELSE [available |-> FALSE, error |-> "failed_to_read_counter", data |-> <<>>]

cframe == <<pollvars, written, login_log, auxvars, exportvars, clipvars>>

CounterInit ==
    /\ now = 0
    /\ nvr = [e \in EventIds |-> NoEvent]
    /\ pc = "export"
    /\ events = <<>>
    /\ pend_list = <<>>
    /\ processed_ids = <<>>
    /\ pending_events = <<>>
    /\ file_timestamps = [c \in Cams |-> <<>>]
    /\ ev = NoEv
    /\ store_file = <<>>
    /\ access_token = "None"
    /\ TOKEN_EXPIRY = 1
    /\ AUTH_DISABLED = FALSE
    /\ evaluated = <<>>
    /\ written = <<>>
    /\ login_log = <<>>
    /\ AuxIdle
    /\ ExportIdle

\* lines 91-93, write_text opens tmp for writing: the file is created, or the
\* existing one is truncated
TmpOpen(w) ==
    /\ w_pc[w] = "idle" /\ w_k[w] < MaxWrites
    /\ w_k' = [w_k EXCEPT ![w] = @ + 1]
    /\ produced' = produced \cup {json_dumps(w, w_k[w] + 1)}
    /\ IF fs_names["tmp"] = 0
       THEN /\ inodes' = Append(inodes, <<>>)
            /\ fs_names' = [fs_names EXCEPT !["tmp"] = next_inode]
            /\ w_fd' = [w_fd EXCEPT ![w] = next_inode]
            /\ next_inode' = next_inode + 1
       ELSE /\ inodes' = [inodes EXCEPT ![fs_names["tmp"]] = <<>>]
            /\ w_fd' = [w_fd EXCEPT ![w] = fs_names["tmp"]]
            /\ UNCHANGED <<fs_names, next_inode>>
    /\ w_pc' = [w_pc EXCEPT ![w] = "write"]
    /\ UNCHANGED <<r_pc, r_fd, r_obs, cframe>>

\* line 93, write_text writes the text and closes the handle
TmpWrite(w) ==
    /\ w_pc[w] = "write"
    /\ inodes' = [inodes EXCEPT ![w_fd[w]] = write_at_0(@, json_dumps(w, w_k[w]))]
    /\ w_fd' = [w_fd EXCEPT ![w] = 0]
    /\ w_pc' = [w_pc EXCEPT ![w] = "replace"]
    /\ UNCHANGED <<fs_names, next_inode, w_k, r_pc, r_fd, r_obs, produced, cframe>>

\* lines 94-96, tmp.replace(p); a missing tmp raises, which is swallowed
TmpReplace(w) ==
    /\ w_pc[w] = "replace"
    /\ fs_names' = IF fs_names["tmp"] = 0 THEN fs_names
                   ELSE [fs_names EXCEPT !["p"] = fs_names["tmp"], !["tmp"] = 0]
    /\ w_pc' = [w_pc EXCEPT ![w] = "idle"]
    /\ UNCHANGED <<inodes, next_inode, w_k, w_fd, r_pc, r_fd, r_obs, produced, cframe>>

\* lines 1227-1236: the request ends and renames the snapshot file away
RequestFinally(w) ==
    /\ w_pc[w] = "idle"
    /\ fs_names' = [fs_names EXCEPT !["p"] = 0]
    /\ w_pc' = [w_pc EXCEPT ![w] = "returned"]
    /\ UNCHANGED <<inodes, next_inode, w_k, w_fd, r_pc, r_fd, r_obs, produced, cframe>>

\* lines 289-290: p.exists()
ReadExists ==
    /\ r_pc = "idle"
    /\ IF fs_names["p"] = 0
       THEN r_obs' = [kind |-> "missing", content |-> <<>>] /\ UNCHANGED r_pc
       ELSE r_pc' = "open" /\ UNCHANGED r_obs
    /\ UNCHANGED <<fs_names, inodes, next_inode, w_pc, w_k, w_fd, r_fd, produced, cframe>>

\* line 292, read_text opens p; the file may be gone by now
ReadOpen ==
    /\ r_pc = "open"
    /\ IF fs_names["p"] = 0
       THEN /\ r_obs' = [kind |-> "vanished", content |-> <<>>]
            /\ r_pc' = "idle"
            /\ UNCHANGED r_fd
       ELSE /\ r_fd' = fs_names["p"]
            /\ r_pc' = "read"
            /\ UNCHANGED r_obs
    /\ UNCHANGED <<fs_names, inodes, next_inode, w_pc, w_k, w_fd, produced, cframe>>

\* line 292, read_text reads the file it opened
ReadText ==
    /\ r_pc = "read"
    /\ r_obs' = [kind |-> "content", content |-> inodes[r_fd]]
    /\ r_fd' = 0
    /\ r_pc' = "idle"
    /\ UNCHANGED <<fs_names, inodes, next_inode, w_pc, w_k, w_fd, produced, cframe>>

CounterNext ==
    \/ \E w \in Requests : TmpOpen(w)
    \/ \E w \in Requests : TmpWrite(w)
    \/ \E w \in Requests : TmpReplace(w)
    \/ \E w \in Requests : RequestFinally(w)
    \/ ReadExists
    \/ ReadOpen
    \/ ReadText

SpecCounter == CounterInit /\ [][CounterNext]_vars

\* C10: a counter request never observes a partially written snapshot: what it
\* read from the snapshot file is the whole text of a snapshot that some
\* _counter_write call produced, and its answer is "not available" or that
\* snapshot, also with two export requests of the same job id.
C10_NoPartialRead ==
    r_obs.kind = "content" =>
       /\ r_obs.content \in produced
       /\ events_download_counter(r_obs).available

\* ---------------------------------------------------------------------------
\* Export pipeline (zm_export.py): collecting the events that overlap the
\* requested window, lines 1044-1145
\* ---------------------------------------------------------------------------
MaxListed == 2

\* instants, in seconds
ExpTimes == {0, 10, 40, 60}
\* the buffer parameter, line 973: 2 is its default; 20 is longer than the
\* shortest intersections the instants allow
Buffers == {0, 2, 20}
\* a null or empty EndTime, line 1087
NullTime == -1

\* the answers of the recorder to "StartTime <= end, sort=StartTime, direction=asc",
\* line 1052-1057: ascending by start; an event is closed, or open
ListedWraps ==
    {[Id |-> i, StartTime |-> s, EndTime |-> e] :
        i \in 1..MaxListed, s \in ExpTimes, e \in ExpTimes \cup {NullTime}}
ExportListings ==
    UNION {{l \in [1..n -> ListedWraps] :
              /\ \A i \in 1..n : l[i].Id = i /\ (l[i].EndTime = NullTime \/ l[i].EndTime >= l[i].StartTime)
              /\ \A i \in 1..(n - 1) : l[i].StartTime <= l[i + 1].StartTime}
           : n \in 0..MaxListed}

Take(q, n) == SubSeq(q, 1, Min(n, Len(q)))
Drop(q, n) == SubSeq(q, Min(n, Len(q)) + 1, Len(q))

\* lines 1032-1034
dt_start_adj(req) == req.start - req.buffer
dt_end_adj(req) == req.end + req.buffer

\* lines 1092-1097, the test of the minimum intersection of lines 1099-1103 left out
OverlappingNoMinimum(req, w) ==
    /\ w.EndTime # NullTime
    /\ w.StartTime <= dt_end_adj(req) /\ w.EndTime >= dt_start_adj(req)
\* lines 1092-1103: the event is closed, overlaps the buffered window and its
\* intersection with the window is at least the buffer
Overlapping(req, w) ==
    /\ w.EndTime # NullTime
    /\ w.StartTime <= dt_end_adj(req) /\ w.EndTime >= dt_start_adj(req)
    /\ ~(Max(0, Min(w.EndTime, req.end) - Max(w.StartTime, req.start)) < req.buffer)

\* lines 1112-1115, the offset computed against the buffered start
offset_secs_buffered(req, w) == Max(0, Max(w.StartTime, dt_start_adj(req)) - w.StartTime)
\* lines 1112-1115
offset_secs(req, w) == Max(0, Max(w.StartTime, req.start) - w.StartTime)
duration_secs(req, w) == Max(0, Min(w.EndTime, req.end) - Max(w.StartTime, req.start))

\* lines 1119-1133
Retained(req, w) ==
    [EventId |-> w.Id, StartTime |-> w.StartTime, EndTime |-> w.EndTime,
     Length |-> w.EndTime - w.StartTime,
     OffsetSec |-> offset_secs(req, w), DurationSec |-> duration_secs(req, w)]

kframe == <<pollvars, written, login_log, auxvars, exportvars, countervars>>
\* and what the download and concat steps of that request leave alone
sframe == <<pollvars, written, login_log, auxvars, x_pc, x_req, x_i, stats, x_chunks, last_done, ff_ok,
            countervars>>

CollectInit ==
    /\ now = 0
    /\ nvr = [e \in EventIds |-> NoEvent]
    /\ pc = "export"
    /\ events = <<>>
    /\ pend_list = <<>>
    /\ processed_ids = <<>>
    /\ pending_events = <<>>
    /\ file_timestamps = [c \in Cams |-> <<>>]
    /\ ev = NoEv
    /\ store_file = <<>>
    /\ access_token = "None"
    /\ TOKEN_EXPIRY = 1
    /\ AUTH_DISABLED = FALSE
    /\ evaluated = <<>>
    /\ written = <<>>
    /\ login_log = <<>>
    /\ AuxIdle
    /\ x_pc = "idle"
    /\ x_req = [download |-> FALSE, concat |-> FALSE, n |-> 0]
    /\ x_i = 0
    /\ stats = [attempted |-> 0, downloaded |-> 0, failed |-> 0, bytes |-> 0]
    /\ x_chunks = 0
    /\ snap = NoSnap
    /\ last_done = -1
    /\ ff_ok = FALSE
    /\ CounterIdle
    /\ k_pc = "fetch"
    /\ \E st \in ExpTimes, en \in ExpTimes, b \in Buffers, ch \in 1..MaxListed :
         k_req = [NoRequest EXCEPT !.start = st, !.end = en, !.buffer = b, !.chunk = ch]
    /\ \E l \in ExportListings, m \in BOOLEAN :
         k_wraps = [all |-> l, page |-> <<>>, rest |-> l, last |-> NullTime, meta |-> m,
                    pages |-> 0]
    /\ events_out = <<>>
    /\ k_todo = <<>>
    /\ dl_stats = NoStats
    /\ k_files = <<>>
    /\ dl_log = <<>>
    /\ concat_info = NoConcat
    /\ payload = NoPayload

\* lines 1051-1075: one page is requested; the request may fail, which ends
\* the loop, and so does a page without events; pages counts the answers
\* received (pages_hit, line 1069)
CollectFetch ==
    /\ k_pc = "fetch"
    /\ \/ k_pc' = "collected" /\ UNCHANGED k_wraps
       \/ IF k_wraps.rest = <<>>
          THEN /\ k_pc' = "collected"
               /\ k_wraps' = [k_wraps EXCEPT !.pages = @ + 1]
          ELSE /\ k_wraps' = [k_wraps EXCEPT !.page = Take(k_wraps.rest, k_req.chunk),
                                             !.rest = Drop(k_wraps.rest, k_req.chunk),
                                             !.pages = @ + 1]
               /\ k_pc' = "wraps"
    /\ UNCHANGED <<k_req, events_out, k_todo, dl_stats, k_files, dl_log, concat_info, payload,
                   kframe>>

\* lines 1078-1134: one listed event is retained or passed over
CollectWrap ==
    /\ k_pc = "wraps" /\ k_wraps.page # <<>>
    /\ LET w == Head(k_wraps.page)
       IN /\ k_wraps' = [k_wraps EXCEPT !.page = Tail(@), !.last = w.StartTime]
          /\ events_out' = IF Overlapping(k_req, w) /\ duration_secs(k_req, w) > 0
                           THEN Append(events_out, Retained(k_req, w))
                           ELSE events_out
    /\ UNCHANGED <<k_pc, k_req, k_todo, dl_stats, k_files, dl_log, concat_info, payload, kframe>>

\* lines 1141-1144, the page count of the pagination metadata not looked at
PageStopNoCount(req, wr) == wr.last >= dt_end_adj(req)
\* lines 1138-1144: the last event seen starts at or behind the buffered end,
\* or the answer carries pagination metadata (meta) and they give this page as
\* the last one
PageStop(req, wr) == wr.last >= dt_end_adj(req) \/ (wr.meta /\ wr.rest = <<>>)

\* lines 1136-1145: the page is over; stop, or go on with the next page
CollectPageEnd ==
    /\ k_pc = "wraps" /\ k_wraps.page = <<>>
    /\ k_pc' = IF PageStop(k_req, k_wraps) THEN "collected" ELSE "fetch"
    /\ UNCHANGED <<k_req, k_wraps, events_out, k_todo, dl_stats, k_files, dl_log, concat_info,
                   payload, kframe>>

CollectNext ==
    \/ CollectFetch
    \/ CollectWrap
    \/ CollectPageEnd

SpecCollect == CollectInit /\ [][CollectNext]_vars

\* the listed events the collection loop has visited
Visited == SubSeq(k_wraps.all, 1, Len(k_wraps.all) - Len(k_wraps.rest) - Len(k_wraps.page))

\* C11: every retained event has offset_sec = max(0, start - ev_start) and
\* duration_sec = min(ev_end, end) - max(ev_start, start) > 0; an event spanning
\* [0, 60] with the window [10, 40] and buffer 0 is retained with offset 10 and
\* duration 30.
C11_ClipCut ==
    /\ \A i \in DOMAIN events_out :
         LET r == events_out[i]
         IN /\ r.OffsetSec = Max(0, k_req.start - r.StartTime)
            /\ r.DurationSec = Min(r.EndTime, k_req.end) - Max(r.StartTime, k_req.start)
            /\ r.DurationSec > 0
    /\ (k_req.start = 10 /\ k_req.end = 40 /\ k_req.buffer = 0) =>
         \A j \in DOMAIN Visited :
            (Visited[j].StartTime = 0 /\ Visited[j].EndTime = 60) =>
               \E i \in DOMAIN events_out :
                  /\ events_out[i].EventId = Visited[j].Id
                  /\ events_out[i].OffsetSec = 10
                  /\ events_out[i].DurationSec = 30

C11_Witness ==
    /\ k_pc = "collected"
    /\ k_req.start = 10 /\ k_req.end = 40 /\ k_req.buffer = 0
    /\ \E i \in DOMAIN events_out :
         /\ events_out[i].StartTime = 0 /\ events_out[i].EndTime = 60
         /\ events_out[i].OffsetSec = 10 /\ events_out[i].DurationSec = 30
    /\ \E i \in DOMAIN events_out : events_out[i].OffsetSec = 0

\* ---------------------------------------------------------------------------
\* Export pipeline (zm_export.py): one request from its retained events to its
\* response, with the clips it downloads, trims and lists for concatenation
\* ---------------------------------------------------------------------------
MaxLength == 2

\* a retained event as the collection loop leaves it, lines 1119-1133: the cut
\* lies within the clip and is not empty
RetainedEvents ==
    {[EventId |-> i, StartTime |-> 0, EndTime |-> l, Length |-> l, OffsetSec |-> o, DurationSec |-> d] :
        i \in 1..MaxClips, l \in 1..MaxLength, o \in 0..(MaxLength - 1), d \in 1..MaxLength}
\* the listing is sorted by ascending start time (line 1056), so that the
\* offsets of line 1114 do not grow along the list
EventsOut ==
    UNION {{l \in [1..n -> RetainedEvents] :
              /\ \A i \in 1..n : /\ l[i].EventId = i
                                 /\ l[i].OffsetSec + l[i].DurationSec <= l[i].Length
              /\ \A i \in 1..(n - 1) : l[i].OffsetSec >= l[i + 1].OffsetSec}
           : n \in 0..MaxClips}

\* the clip as downloaded: the whole recording
WholeClip(e) == [from |-> 0, to |-> e.Length]

\* lines 636-639: the retained event of an id
EventOf(eid) == CHOOSE e \in {events_out[i] : i \in DOMAIN events_out} : e.EventId = eid

FileSet(f, eid, seg) == [x \in DOMAIN f \cup {eid} |-> IF x = eid THEN seg ELSE f[x]]

\* lines 657-668: ffmpeg -ss off -t dur of a single clip
TrimBoth(f, e) ==
    FileSet(f, e.EventId, [from |-> f[e.EventId].from + e.OffsetSec,
                           to |-> Min(f[e.EventId].to, f[e.EventId].from + e.OffsetSec + e.DurationSec)])
\* lines 670-680: ffmpeg -ss off
TrimHead(f, e) ==
    FileSet(f, e.EventId, [from |-> Min(f[e.EventId].to, f[e.EventId].from + e.OffsetSec),
                           to |-> f[e.EventId].to])
\* lines 682-695: ffmpeg -t dur
TrimTail(f, e) ==
    FileSet(f, e.EventId, [from |-> f[e.EventId].from,
                           to |-> Min(f[e.EventId].to, f[e.EventId].from + e.DurationSec)])

\* line 637, the clip before the last one taken for the tail cut
last_id_off_by_one(dn) == dn[Max(1, Len(dn) - 1)]
\* line 637: downloaded_now[-1]
last_id(dn) == dn[Len(dn)]
\* line 636: downloaded_now[0]
first_id(dn) == dn[1]

\* lines 631-695: the files after the trim step; has_ffmpeg, ok1 and ok2 are
\* what shutil.which and the ffmpeg runs give
TrimFiles(f, dn, has_ffmpeg, ok1, ok2) ==
    IF ~has_ffmpeg THEN f
    ELSE LET first_e == EventOf(first_id(dn))
             last_e == EventOf(last_id(dn))
         IN IF first_e.EventId = last_e.EventId
            THEN (IF ok1 THEN TrimBoth(f, first_e) ELSE f)
            ELSE LET g == IF first_e.OffsetSec > 0 /\ ok1 THEN TrimHead(f, first_e) ELSE f
                 IN IF last_e.Length - last_e.DurationSec > 0 /\ last_e.DurationSec > 0 /\ ok2
                    THEN TrimTail(g, last_e) ELSE g

\* ---- concat mode, lines 722-732 and 808-842 ----

\* speed is held in units of 1e-7, so that the tolerance of line 808 shows
SpeedOne == 10000000
SpeedTolerance == 10
Speeds == {SpeedOne, SpeedOne + 5, SpeedOne + 20, 2 * SpeedOne, SpeedOne \div 2}

\* fps: None, or an integer
FpsValues == {<<>>, <<0>>, <<-5>>, <<25>>}

\* size: None, or a string; the string is held as the parts that
\* s.replace("x", ":").strip().split(":") yields, a part being the integer it
\* spells or not a number
NumPart(n) == [num |-> TRUE, val |-> n]
NaNPart == [num |-> FALSE, val |-> 0]
NoSize == [given |-> FALSE, parts |-> <<>>]
SizeString(parts) == [given |-> TRUE, parts |-> parts]
SizeValues ==
    {NoSize,
     SizeString(<<>>),                                        \* ""
     SizeString(<<NumPart(1920), NumPart(1080)>>),            \* "1920x1080", "1920:1080"
     SizeString(<<NumPart(1920)>>),                           \* "1920"
     SizeString(<<NumPart(0), NumPart(1080)>>),               \* "0x1080"
     SizeString(<<NumPart(-1920), NumPart(1080)>>),           \* "-1920x1080"
     SizeString(<<NaNPart, NumPart(1080)>>),                  \* "widex1080"
     SizeString(<<NumPart(1920), NumPart(1080), NumPart(2)>>) \* "1920x1080x2"
    }

\* lines 722-732: TRUE when a (w, h) pair comes back, FALSE when None does
_parse_size(size) ==
    /\ size.given /\ size.parts # <<>>
    /\ Len(size.parts) = 2
    /\ size.parts[1].num /\ size.parts[2].num
    /\ size.parts[1].val > 0 /\ size.parts[2].val > 0

Abs(n) == IF n >= 0 THEN n ELSE 0 - n

\* lines 808-811
want_speed(speed) == Abs(speed - SpeedOne) > SpeedTolerance
want_fps(fps) == fps # <<>> /\ fps[1] > 0
want_size(size) == _parse_size(size)

\* lines 834 and 845-862, with the fps test dropped
concat_mode_any_fps(speed, fps, size) ==
    IF ~want_speed(speed) /\ fps = <<>> /\ ~want_size(size) THEN "copy" ELSE "reencode"
\* lines 834 and 845-862
concat_mode(speed, fps, size) ==
    IF ~want_speed(speed) /\ ~want_fps(fps) /\ ~want_size(size) THEN "copy" ELSE "reencode"

\* ---- the request, from the retained events on ----

ClipsInit ==
    /\ now = 0
    /\ nvr = [e \in EventIds |-> NoEvent]
    /\ pc = "export"
    /\ events = <<>>
    /\ pend_list = <<>>
    /\ processed_ids = <<>>
    /\ pending_events = <<>>
    /\ file_timestamps = [c \in Cams |-> <<>>]
    /\ ev = NoEv
    /\ store_file = <<>>
    /\ access_token = "None"
    /\ TOKEN_EXPIRY = 1
    /\ AUTH_DISABLED = FALSE
    /\ evaluated = <<>>
    /\ written = <<>>
    /\ login_log = <<>>
    /\ AuxIdle
    /\ x_pc = "idle"
    /\ x_req = [download |-> FALSE, concat |-> FALSE, n |-> 0]
    /\ x_i = 0
    /\ stats = [attempted |-> 0, downloaded |-> 0, failed |-> 0, bytes |-> 0]
    /\ x_chunks = 0
    /\ snap = NoSnap
    /\ last_done = -1
    /\ ff_ok = FALSE
    /\ CounterIdle
    /\ k_pc = "collected"
    /\ \E dl \in BOOLEAN, tr \in BOOLEAN, cc \in BOOLEAN :
         k_req = [NoRequest EXCEPT !.download = dl, !.trim = tr, !.concat = cc,
                                   !.speed = SpeedOne, !.size = NoSize]
    /\ k_wraps = [all |-> <<>>, page |-> <<>>, rest |-> <<>>, last |-> 0, meta |-> FALSE,
                  pages |-> 0]
    /\ events_out \in EventsOut
    /\ k_todo = <<>>
    /\ dl_stats = NoStats
    /\ k_files = <<>>
    /\ dl_log = <<>>
    /\ concat_info = NoConcat
    /\ payload = NoPayload

\* lines 565-566: nothing to download, _download_and_trim returns at once
DownloadBegin ==
    /\ k_pc = "collected"
    /\ IF ~k_req.download \/ events_out = <<>>
       THEN k_pc' = "concat_gate" /\ UNCHANGED <<k_todo, snap>>
       ELSE /\ k_pc' = "download" /\ k_todo' = events_out
            /\ snap' = _counter_write("download", "starting", Len(events_out), 0,
                                      <<want_concat_of(k_req)>>)
    /\ UNCHANGED <<k_req, k_wraps, events_out, dl_stats, k_files, dl_log, concat_info, payload,
                   sframe>>

DownloadOutcomes == {"ok", "http_error", "get_raises", "stream_raises"}

\* lines 595 and 619-628, the batch given up at the first failure
NextAfterErrorAbort(todo) == <<>>
\* lines 595 and 619-628: after a failure the loop goes on with the next event
NextAfterError(todo) == Tail(todo)

\* lines 574-628: one event of the download loop
DownloadClip ==
    /\ k_pc = "download" /\ k_todo # <<>>
    /\ LET e == Head(k_todo)
       IN \E o \in DownloadOutcomes :
            /\ dl_log' = Append(dl_log, [EventId |-> e.EventId, outcome |-> o])
            /\ dl_stats' =
                 [attempted |-> dl_stats.attempted + (IF o = "get_raises" THEN 0 ELSE 1),
                  downloaded |-> dl_stats.downloaded + (IF o = "ok" THEN 1 ELSE 0),
                  failed |-> dl_stats.failed + (IF o = "ok" THEN 0 ELSE 1),
                  downloaded_now |-> IF o = "ok" THEN Append(dl_stats.downloaded_now, e.EventId)
                                     ELSE dl_stats.downloaded_now]
            /\ k_files' = IF o = "ok" THEN FileSet(k_files, e.EventId, WholeClip(e)) ELSE k_files
            /\ k_todo' = IF o = "ok" THEN Tail(k_todo) ELSE NextAfterError(k_todo)
            /\ snap' = IF o = "ok"
                       THEN _counter_write("download", "file_done", Len(events_out),
                                           dl_stats.downloaded + 1, <<want_concat_of(k_req)>>)
                       ELSE _counter_write("download", "error", Len(events_out),
                                           dl_stats.downloaded, <<want_concat_of(k_req)>>)
    /\ UNCHANGED <<k_pc, k_req, k_wraps, events_out, concat_info, payload, sframe>>

\* lines 630-703: the loop is over, the first and the last clip are trimmed
TrimStep ==
    /\ k_pc = "download" /\ k_todo = <<>>
    /\ IF k_req.trim /\ dl_stats.downloaded_now # <<>>
       THEN \E has_ffmpeg \in BOOLEAN, ok1 \in BOOLEAN, ok2 \in BOOLEAN :
              k_files' = TrimFiles(k_files, dl_stats.downloaded_now, has_ffmpeg, ok1, ok2)
       ELSE UNCHANGED k_files
    /\ snap' = _counter_write("download", "done", Len(events_out), dl_stats.downloaded,
                              <<want_concat_of(k_req)>>)
    /\ k_pc' = "concat_gate"
    /\ UNCHANGED <<k_req, k_wraps, events_out, k_todo, dl_stats, dl_log, concat_info, payload,
                   sframe>>

\* lines 783-788, the list built from every clip found in the temp directory
clip_paths_from_dir(dn, f) ==
    LET present == SelectSeq([i \in 1..MaxClips |-> i], LAMBDA eid : eid \in DOMAIN f)
    IN [i \in DOMAIN present |-> [EventId |-> present[i], clip |-> f[present[i]]]]
\* lines 783-788: the clips of this run that exist, in download order
clip_paths(dn, f) ==
    LET present == SelectSeq(dn, LAMBDA eid : eid \in DOMAIN f)
    IN [i \in DOMAIN present |-> [EventId |-> present[i], clip |-> f[present[i]]]]

\* lines 948-955, the clean-up left out
UnlinkNothing(f, paths) == f
\* lines 948-955: the listed clips are removed from the temp directory
Unlink(f, paths) ==
    LET gone == {paths[i].EventId : i \in DOMAIN paths}
    IN [x \in DOMAIN f \ gone |-> f[x]]

\* lines 1187-1195 and 765-957: _concat_downloads
ConcatStep ==
    /\ k_pc = "concat_gate"
    /\ LET dn == dl_stats.downloaded_now
           paths == clip_paths(dn, k_files)
       IN IF ~(k_req.download /\ k_req.concat)
          THEN UNCHANGED <<concat_info, k_files, snap>>
          ELSE IF dn = <<>> \/ paths = <<>>                  \* lines 765-772, 789-796
          THEN /\ snap' = _counter_write("concat", "skipped", 0, 0, None)
               /\ UNCHANGED <<concat_info, k_files>>
          ELSE \/ /\ snap' = _counter_write("concat", "error", Len(dn), 0, None)
                  /\ UNCHANGED <<concat_info, k_files>>     \* lines 774-781: no ffmpeg
               \/ \E ok \in BOOLEAN :
                    /\ concat_info' =
                         [enabled |-> ok,
                          mode |-> concat_mode(k_req.speed, k_req.fps, k_req.size),
                          list |-> paths,
                          disk |-> IF ok THEN {"out"} ELSE {"list"}]
                    /\ k_files' = IF ok THEN Unlink(k_files, paths) ELSE k_files
                    /\ snap' = IF ok
                               THEN _counter_write("concat", "done", Len(paths), Len(paths), None)
                               ELSE _counter_write("concat", "error", Len(paths), 0, None)
    /\ k_pc' = "respond"
    /\ UNCHANGED <<k_req, k_wraps, events_out, k_todo, dl_stats, dl_log, payload, sframe>>

\* lines 1196-1221
Respond ==
    /\ k_pc = "respond"
    /\ payload' = [count |-> Len(events_out),
                   attempted |-> IF k_req.download THEN dl_stats.attempted ELSE 0,
                   downloaded |-> IF k_req.download THEN dl_stats.downloaded ELSE 0,
                   failed |-> IF k_req.download THEN dl_stats.failed ELSE 0]
    /\ snap' = NoSnap                                     \* lines 1227-1236
    /\ k_pc' = "returned"
    /\ UNCHANGED <<k_req, k_wraps, events_out, k_todo, dl_stats, k_files, dl_log, concat_info,
                   sframe>>

ClipsNext ==
    \/ DownloadBegin
    \/ DownloadClip
    \/ TrimStep
    \/ ConcatStep
    \/ Respond

SpecClips == ClipsInit /\ [][ClipsNext]_vars

AfterTrim == k_pc \in {"concat_gate", "respond", "returned"}
Interior == 2..(Len(dl_stats.downloaded_now) - 1)

\* C12: after the trim step every clip that is neither the first nor the last
\* of the download order is the whole recording as downloaded, in the temp
\* directory and in the concatenation list.
C12_InteriorUntouched ==
    AfterTrim =>
       \A i \in Interior :
          LET eid == dl_stats.downloaded_now[i]
          IN /\ eid \in DOMAIN k_files => k_files[eid] = WholeClip(EventOf(eid))
             /\ concat_info.list # <<>> =>
                   concat_info.list[i] = [EventId |-> eid, clip |-> WholeClip(EventOf(eid))]

C12_Witness ==
    /\ k_pc = "returned"
    /\ Len(concat_info.list) = 3
    /\ concat_info.list[1].clip # WholeClip(EventOf(concat_info.list[1].EventId))
    /\ concat_info.list[3].clip # WholeClip(EventOf(concat_info.list[3].EventId))
    /\ concat_info.list[2].clip = WholeClip(EventOf(concat_info.list[2].EventId))
    /\ EventOf(concat_info.list[2].EventId).DurationSec < EventOf(concat_info.list[2].EventId).Length

AfterDownload == (k_pc = "download" /\ k_todo = <<>>) \/ AfterTrim

\* C14: with download requested, the download loop asks for every retained
\* event once, in listing order, whatever the outcome of the earlier ones, and
\* every event whose own request succeeds is downloaded.
C14_BatchContinues ==
    (AfterDownload /\ k_req.download) =>
       /\ Len(dl_log) = Len(events_out)
       /\ \A i \in DOMAIN dl_log :
            /\ dl_log[i].EventId = events_out[i].EventId
            /\ dl_log[i].outcome = "ok" =>
                 \E j \in DOMAIN dl_stats.downloaded_now :
                    dl_stats.downloaded_now[j] = dl_log[i].EventId

C14_Witness ==
    /\ k_pc = "returned"
    /\ Len(dl_log) = 3
    /\ dl_log[1].outcome = "http_error"
    /\ dl_log[2].outcome = "stream_raises"
    /\ dl_log[3].outcome = "ok"
    /\ dl_stats.downloaded_now = <<3>>

\* C15: the response has results.count = number of retained events and
\* videos.downloaded = number of clips downloaded in this run, and with
\* download=true attempted = downloaded + failed = results.count.
C15_ResponseCounts ==
    k_pc = "returned" =>
       /\ payload.count = Len(events_out)
       /\ payload.downloaded = Len(dl_stats.downloaded_now)
       /\ k_req.download =>
            /\ payload.attempted = payload.downloaded + payload.failed
            /\ payload.attempted = payload.count

\* ---- the concat mode of a request, over its speed, fps and size ----

OneClip == [EventId |-> 1, StartTime |-> 0, EndTime |-> 1, Length |-> 1, OffsetSec |-> 0,
            DurationSec |-> 1]

\* a request with download and concat that has downloaded one clip and
\* reaches line 1187
ModeInit ==
    /\ now = 0
    /\ nvr = [e \in EventIds |-> NoEvent]
    /\ pc = "export"
    /\ events = <<>>
    /\ pend_list = <<>>
    /\ processed_ids = <<>>
    /\ pending_events = <<>>
    /\ file_timestamps = [c \in Cams |-> <<>>]
    /\ ev = NoEv
    /\ store_file = <<>>
    /\ access_token = "None"
    /\ TOKEN_EXPIRY = 1
    /\ AUTH_DISABLED = FALSE
    /\ evaluated = <<>>
    /\ written = <<>>
    /\ login_log = <<>>
    /\ AuxIdle
    /\ x_pc = "idle"
    /\ x_req = [download |-> FALSE, concat |-> FALSE, n |-> 0]
    /\ x_i = 0
    /\ stats = [attempted |-> 0, downloaded |-> 0, failed |-> 0, bytes |-> 0]
    /\ x_chunks = 0
    /\ snap = _counter_write("download", "done", 1, 1, <<TRUE>>)    \* line 698
    /\ last_done = -1
    /\ ff_ok = FALSE
    /\ CounterIdle
    /\ k_pc = "concat_gate"
    /\ \E sp \in Speeds, f \in FpsValues, sz \in SizeValues :
         k_req = [NoRequest EXCEPT !.download = TRUE, !.concat = TRUE,
                                   !.speed = sp, !.fps = f, !.size = sz]
    /\ k_wraps = [all |-> <<>>, page |-> <<>>, rest |-> <<>>, last |-> 0, meta |-> FALSE,
                  pages |-> 0]
    /\ events_out = <<OneClip>>
    /\ k_todo = <<>>
    /\ dl_stats = [attempted |-> 1, downloaded |-> 1, failed |-> 0, downloaded_now |-> <<1>>]
    /\ k_files = FileSet(<<>>, 1, WholeClip(OneClip))
    /\ dl_log = <<[EventId |-> 1, outcome |-> "ok"]>>
    /\ concat_info = NoConcat
    /\ payload = NoPayload

ModeNext ==
    \/ ConcatStep
    \/ Respond

SpecMode == ModeInit /\ [][ModeNext]_vars

ConcatRan == concat_info.mode # "None"

\* C13 as claimed: the mode is copy exactly when speed is 1.0 and fps and
\* size are not given; any fps value, any size string and any other speed
\* give reencode.
C13_ModeAsClaimed ==
    ConcatRan =>
       (concat_info.mode = "copy"
          <=> (k_req.speed = SpeedOne /\ k_req.fps = <<>> /\ ~k_req.size.given))

\* C13 as amended: the mode is copy exactly when speed is within 1e-6 of 1.0,
\* fps is not given or not positive, and size is not given or is not a pair of
\* two positive integers; otherwise it is reencode.
C13_ModeSelection ==
    ConcatRan =>
       /\ concat_info.mode \in {"copy", "reencode"}
       /\ concat_info.mode = "reencode" <=>
            \/ k_req.speed - SpeedOne > SpeedTolerance
            \/ SpeedOne - k_req.speed > SpeedTolerance
            \/ k_req.fps # <<>> /\ k_req.fps[1] >= 1
            \/ /\ k_req.size.given
               /\ Len(k_req.size.parts) = 2
               /\ \A i \in 1..2 : k_req.size.parts[i].num /\ k_req.size.parts[i].val >= 1

C13_Witness ==
    /\ k_pc = "returned"
    /\ concat_info.mode = "copy"
    /\ k_req.fps = <<0>>
    /\ k_req.size = SizeString(<<NaNPart, NumPart(1080)>>)

\* ---------------------------------------------------------------------------
\* Further properties of the poller
\* ---------------------------------------------------------------------------

\* C16: a pending event found closed on re-fetch is evaluated, and entered in
\* the processed ids, with the start time of that same event.
C16_PendingOwnStart ==
    \A i \in DOMAIN evaluated :
       evaluated[i].via = "pending" =>
          /\ evaluated[i].t = StartOf(evaluated[i].Id)
          /\ evaluated[i].Id \in DOMAIN processed_ids =>
                processed_ids[evaluated[i].Id] = StartOf(evaluated[i].Id)

\* the entries of d that are not older than the retention horizon at time t
WithinHorizon(d, t) == [e \in {x \in DOMAIN d : d[x] >= t - RETENTION} |-> d[e]]

\* C17: the rewrite at the end of a cycle leaves in the store file exactly the
\* in-memory entries that are not older than the retention horizon, and no
\* older entry in memory.
C17_RewriteDropsOld ==
    [][ (pc = "store_mem" /\ pc' = "store_file") =>
           /\ store_file' = cleanup_processed_ids(WithinHorizon(processed_ids, now))
           /\ processed_ids' = WithinHorizon(processed_ids, now)
      ]_vars

\* ---- a recorder that answers with an incomplete record ----

\* a camera starts recording and the recorder's record of the event has no
\* StartDateTime field; at most one such record
NewBadEvent ==
    /\ pc \in {"start", "sleep"}
    /\ \A x \in EventIds : nvr[x].has_sdt
    /\ \E e \in EventIds, c \in Cams :
         /\ ~nvr[e].exists
         /\ \A x \in EventIds : x < e => nvr[x].exists
         /\ nvr' = [nvr EXCEPT ![e] = [exists |-> TRUE, MonitorId |-> c,
                                      StartDateTime |-> now, closed |-> FALSE,
                                      has_sdt |-> FALSE]]
    /\ UNCHANGED <<now, pc, events, pend_list, processed_ids, pending_events,
                   file_timestamps, ev, store_file, access_token, TOKEN_EXPIRY,
                   AUTH_DISABLED, evaluated>>
    /\ UNCHANGED nonpollvars

RecordsNext ==
    \/ Tick
    \/ NewEvent
    \/ NewBadEvent
    \/ CloseEvent
    \/ Poller

SpecRecords == Init /\ [][RecordsNext]_vars

\* C18: a listed record without start time is passed over on its own: the
\* events loop goes on with the next record and nothing else changes.
C18_BadRecordSkipped ==
    [][ (pc = "events" /\ events # <<>> /\ Head(events).StartDateTime = NullStart) =>
           /\ pc' = "events"
           /\ events' = Tail(events)
           /\ UNCHANGED <<processed_ids, file_timestamps, evaluated>>
      ]_vars

\* ---- the poller restarts while a recording is in progress ----

\* lines 293-294 after a restart at time 0: the pending set is empty again,
\* whatever it held; recording 1 started s time units before and is still open
RestartInit ==
    /\ now = 0
    /\ \E s \in 1..(LOOKBACK + 1), c \in Cams :
         nvr = [e \in EventIds |->
                  IF e = 1 THEN [exists |-> TRUE, MonitorId |-> c, StartDateTime |-> 0 - s,
                                 closed |-> FALSE, has_sdt |-> TRUE]
                  ELSE NoEvent]
    /\ pc = "start"
    /\ events = <<>>
    /\ pend_list = <<>>
    /\ processed_ids = <<>>
    /\ pending_events = <<>>
    /\ file_timestamps = [c \in Cams |-> <<>>]
    /\ ev = NoEv
    /\ store_file = <<>>
    /\ access_token = "None"
    /\ TOKEN_EXPIRY = 1
    /\ AUTH_DISABLED = FALSE
    /\ evaluated = <<>>
    /\ written = <<>>
    /\ login_log = <<>>
    /\ AuxIdle
    /\ ExportIdle

SpecRestart == RestartInit /\ [][Next]_vars

InPending(e) == \E i \in DOMAIN pending_events : pending_events[i].Id = e

\* C19: when an event closes that is neither processed nor held in the pending
\* set (it was dropped from it, or the poller restarted), the listing query
\* finds it again, whatever the length of the recording.
C19_Rediscovered ==
    [][ \A e \in EventIds :
          ( /\ nvr[e].exists /\ ~nvr[e].closed /\ nvr'[e].closed
            /\ e \notin DOMAIN processed_ids
            /\ ~InPending(e) )
          => e \in ListedIds'
      ]_vars

\* the event the poller handles in this step, if any
Handled ==
    IF pc = "events" /\ events # <<>> THEN {Head(events).Id}
    ELSE IF pc = "pending" /\ pend_list # <<>> THEN {Head(pend_list)}
    ELSE {}

C21_LoginFailureIsolated ==
    [][ ( /\ pc \in {"start", "fetch"} /\ pc' # pc
          /\ NeedLogin
          /\ UNCHANGED <<access_token, TOKEN_EXPIRY, AUTH_DISABLED>> )
        => /\ pc' = (IF pc = "start" THEN "fetch" ELSE "events")
           /\ NeedLogin'
      ]_vars

\* ---------------------------------------------------------------------------
\* login_bauth on its own: one process calls it again and again while the
\* clock moves, and the NVR answers each request it receives in any way
\* ---------------------------------------------------------------------------
LoginCall ==
    /\ pc = "start"
    /\ Len(login_log) < MaxLogins
    /\ \E o \in LoginOutcomes :
         /\ SetAuth(login_bauth(o))
         /\ login_log' = IF o = "cached" THEN login_log
                         ELSE Append(login_log, [t |-> now, answer |-> o])
    /\ UNCHANGED <<now, nvr, pc, events, pend_list, processed_ids, pending_events,
                   file_timestamps, ev, store_file, evaluated>>
    /\ UNCHANGED <<written, auxvars, exportvars, countervars, clipvars>>

LoginNext ==
    \/ Tick
    \/ LoginCall

SpecLogin == Init /\ [][LoginNext]_vars

\* C22: a login request is sent only when no auth-disabled answer has been
\* seen by this process and no token obtained less than its lifetime ago is
\* cached.
C22_LoginOnlyWhenDue ==
    [][ login_log' # login_log =>
          \A i \in DOMAIN login_log :
             /\ login_log[i].answer # "disabled"
             /\ login_log[i].answer = "token" => now >= login_log[i].t + TOKEN_LIFETIME
      ]_vars

\* a token was obtained, a request was sent again once it had expired, and
\* that one was answered with the auth-disabled payload
C22_Witness ==
    /\ Len(login_log) = 2
    /\ login_log[1].answer = "token"
    /\ login_log[2].answer = "disabled"
    /\ AUTH_DISABLED

\* ---------------------------------------------------------------------------
\* The trim phase (lines 630-695)
\* ---------------------------------------------------------------------------
\* C23: after the trim phase every clip that was trimmed covers exactly the
\* part of its recording that lies in the requested window, from OffsetSec on
\* for DurationSec, whatever the retained events and the clips downloaded.
C23_TrimmedExact ==
    k_pc = "concat_gate" =>
       \A eid \in DOMAIN k_files :
          LET e == EventOf(eid)
          IN k_files[eid] # WholeClip(e) =>
                k_files[eid] = [from |-> e.OffsetSec, to |-> e.OffsetSec + e.DurationSec]

\* ---------------------------------------------------------------------------
\* The fields of a progress snapshot (lines 569-628, 699, 765-945, 177-207)
\* ---------------------------------------------------------------------------
\* C25 as claimed: in every snapshot the status is one of starting, running,
\* done, error, skipped and the phase is download or concat.
C25_StatusAsClaimed ==
    snap.phase # "none" =>
       /\ snap.status \in {"starting", "running", "done", "error", "skipped"}
       /\ snap.phase \in {"download", "concat"}

\* C25 as amended: in every snapshot the status is one of starting,
\* downloading, file_done, running, done, error, skipped; downloading and
\* file_done occur in the download phase only and running and skipped in the
\* concat phase only; the phase is download or concat.
C25_StatusValues ==
    snap.phase # "none" =>
       /\ snap.phase \in {"download", "concat"}
       /\ snap.phase = "download" =>
             snap.status \in {"starting", "downloading", "file_done", "done", "error"}
       /\ snap.phase = "concat" =>
             snap.status \in {"running", "done", "error", "skipped"}

\* a job has written file_done and has reached the end of its concatenation
C25_Witness ==
    /\ snap.phase = "concat"
    /\ snap.status = "done"
    /\ stats.downloaded >= 1
    /\ x_pc # "idle"

\* ---------------------------------------------------------------------------
\* The concatenation list (lines 765-802), with clips of earlier exports left
\* in the temp directory
\* ---------------------------------------------------------------------------
\* a request over whole clips; the temp directory holds the clips an earlier
\* export downloaded and did not concatenate
ListInit ==
    /\ now = 0
    /\ nvr = [e \in EventIds |-> NoEvent]
    /\ pc = "export"
    /\ events = <<>>
    /\ pend_list = <<>>
    /\ processed_ids = <<>>
    /\ pending_events = <<>>
    /\ file_timestamps = [c \in Cams |-> <<>>]
    /\ ev = NoEv
    /\ store_file = <<>>
    /\ access_token = "None"
    /\ TOKEN_EXPIRY = 1
    /\ AUTH_DISABLED = FALSE
    /\ evaluated = <<>>
    /\ written = <<>>
    /\ login_log = <<>>
    /\ AuxIdle
    /\ x_pc = "idle"
    /\ x_req = [download |-> FALSE, concat |-> FALSE, n |-> 0]
    /\ x_i = 0
    /\ stats = [attempted |-> 0, downloaded |-> 0, failed |-> 0, bytes |-> 0]
    /\ x_chunks = 0
    /\ snap = NoSnap
    /\ last_done = -1
    /\ ff_ok = FALSE
    /\ CounterIdle
    /\ k_pc = "collected"
    /\ \E dl \in BOOLEAN, cc \in BOOLEAN :
         k_req = [NoRequest EXCEPT !.download = dl, !.trim = FALSE, !.concat = cc,
                                   !.speed = SpeedOne, !.size = NoSize]
    /\ k_wraps = [all |-> <<>>, page |-> <<>>, rest |-> <<>>, last |-> 0, meta |-> FALSE,
                  pages |-> 0]
    /\ events_out \in {[i \in 1..n |-> [OneClip EXCEPT !.EventId = i]] : n \in 0..MaxClips}
    /\ k_todo = <<>>
    /\ dl_stats = NoStats
    /\ k_files \in {[x \in S |-> WholeClip(OneClip)] : S \in SUBSET (1..MaxClips)}
    /\ dl_log = <<>>
    /\ concat_info = NoConcat
    /\ payload = NoPayload

SpecList == ListInit /\ [][ClipsNext]_vars

\* C24: concatenation runs only for a request with download and concat that
\* has downloaded at least one clip, and its list names exactly the clips
\* whose download succeeded in this run, in download order.
C24_ListExact ==
    (k_pc \in {"respond", "returned"} /\ ConcatRan) =>
       LET oks == SelectSeq(dl_log, LAMBDA d : d.outcome = "ok")
       IN /\ k_req.download /\ k_req.concat
          /\ oks # <<>>
          /\ [i \in DOMAIN concat_info.list |-> concat_info.list[i].EventId]
               = [i \in DOMAIN oks |-> oks[i].EventId]

\* the download of the second of three events has failed while its clip of an
\* earlier export is in the directory, and the list has been built
C24_Witness ==
    /\ k_pc = "returned"
    /\ ConcatRan
    /\ Len(dl_log) = 3
    /\ dl_log[2].outcome # "ok"
    /\ 2 \in DOMAIN k_files
    /\ Len(concat_info.list) = 2

TempoSpeeds == {k * (SpeedOne \div 8) : k \in -8..64}

tframe == <<pollvars, written, login_log, aq_files, aq_inodes, aq_dl, aq_worker, exportvars,
            countervars, clipvars>>

TempoInit ==
    /\ now = 0
    /\ nvr = [e \in EventIds |-> NoEvent]
    /\ pc = "export"
    /\ events = <<>>
    /\ pend_list = <<>>
    /\ processed_ids = <<>>
    /\ pending_events = <<>>
    /\ file_timestamps = [c \in Cams |-> <<>>]
    /\ ev = NoEv
    /\ store_file = <<>>
    /\ access_token = "None"
    /\ TOKEN_EXPIRY = 1
    /\ AUTH_DISABLED = FALSE
    /\ evaluated = <<>>
    /\ written = <<>>
    /\ login_log = <<>>
    /\ \E sp \in TempoSpeeds, a \in BOOLEAN :
         tempo = [NoTempo EXCEPT !.pc = "begin", !.audio = a, !.speed = sp]
    /\ aq_files = <<>>
    /\ aq_inodes = <<>>
    /\ aq_dl = NoDownload
    /\ aq_worker = NoWorker
    /\ ExportIdle

\* line 872: "if want_speed and has_audio"
TempoBegin ==
    /\ tempo.pc = "begin"
    /\ tempo' = IF want_speed(tempo.speed) /\ tempo.audio
                THEN [tempo EXCEPT !.pc = "loop", !.s = tempo.speed]
                ELSE [tempo EXCEPT !.pc = "done"]
    /\ UNCHANGED tframe

\* lines 875 and 878: the test of the while loop of the branch line 874 chose;
\* s stays above 1.0 in the first branch and at or below it in the second
TempoLoopTest(s) ==
    IF s > SpeedOne THEN s > 2 * SpeedOne + SpeedTolerance
    ELSE s < (SpeedOne \div 2) - SpeedTolerance

\* lines 875 and 878: one iteration, chain.append(2.0); s /= 2.0 or
\* chain.append(0.5); s /= 0.5
TempoIter ==
    /\ tempo.pc = "loop"
    /\ TempoLoopTest(tempo.s)
    /\ Len(tempo.chain) < MaxChain
    /\ tempo' = IF tempo.s > SpeedOne
                THEN [tempo EXCEPT !.chain = Append(@, 2 * SpeedOne), !.s = @ \div 2]
                ELSE [tempo EXCEPT !.chain = Append(@, SpeedOne \div 2), !.s = @ * 2]
    /\ UNCHANGED tframe

\* lines 876 and 879: the loop is over, chain.append(s)
TempoLast ==
    /\ tempo.pc = "loop"
    /\ ~TempoLoopTest(tempo.s)
    /\ tempo' = [tempo EXCEPT !.chain = Append(@, tempo.s), !.pc = "done"]
    /\ UNCHANGED tframe

TempoNext ==
    \/ TempoBegin
    \/ TempoIter
    \/ TempoLast

SpecTempo == TempoInit /\ [][TempoNext]_vars

\* a factor or a speed in units of 1/64, exact for the speeds of the model
Sixtyfourths(x) == x \div (SpeedOne \div 64)

RECURSIVE ChainProduct(_)
ChainProduct(chain) ==
    IF chain = <<>> THEN 1 ELSE Sixtyfourths(Head(chain)) * ChainProduct(Tail(chain))

RECURSIVE Power64(_)
Power64(n) == IF n = 0 THEN 1 ELSE 64 * Power64(n - 1)

\* C27: for a speed other than 1.0 with audio present the loop that builds
\* the chain ends, every iteration bringing s strictly nearer to the range it
\* ends in, and the chain it leaves is not empty, has every factor within
\* [0.5, 2.0] and has the requested speed as its product.
C27_TempoChain ==
    [][ /\ (tempo.pc = "loop" /\ tempo'.pc = "loop" /\ tempo' # tempo) =>
              IF tempo.s > SpeedOne
              THEN SpeedOne <= tempo'.s /\ tempo'.s < tempo.s
              ELSE tempo.s < tempo'.s /\ tempo'.s <= SpeedOne
        /\ (tempo.pc = "loop" /\ tempo'.pc = "done") =>
              /\ \A i \in DOMAIN tempo'.chain :
                    /\ tempo'.chain[i] >= SpeedOne \div 2
                    /\ tempo'.chain[i] <= 2 * SpeedOne
              /\ ChainProduct(tempo'.chain)
                    = Sixtyfourths(tempo.speed) * Power64(Len(tempo'.chain) - 1)
      ]_vars

\* ---------------------------------------------------------------------------
\* Which events the collection retains (lines 1085-1120)
\* ---------------------------------------------------------------------------
\* the condition of C28, from the request and the times of the listed event
Qualifies(req, w) ==
    /\ w.EndTime # NullTime
    /\ w.StartTime <= req.end + req.buffer
    /\ w.EndTime >= req.start - req.buffer
    /\ Min(w.EndTime, req.end) - Max(w.StartTime, req.start) >= req.buffer
    /\ Min(w.EndTime, req.end) - Max(w.StartTime, req.start) > 0

\* C28: an event the collection loop has looked at is retained if and only if
\* it has an end time, overlaps the window widened by the buffer, shares at
\* least buffer seconds with the window itself and has a kept duration above
\* zero; an open event is never retained; and when the loop stops at the end
\* of a page, no event it has not looked at would have been retained.
C28_RetainedIff ==
    [][ /\ \A j \in DOMAIN Visited' :
             Qualifies(k_req, Visited'[j])
                <=> \E i \in DOMAIN events_out' : events_out'[i].EventId = Visited'[j].Id
        /\ (k_pc = "wraps" /\ k_pc' = "collected") =>
              \A j \in DOMAIN k_wraps.rest : ~Qualifies(k_req, k_wraps.rest[j])
      ]_vars

\* an event that shares less than the buffer with the window has been passed
\* over, another one has been retained and an open one has been passed over
C28_Witness ==
    /\ k_pc = "collected"
    /\ k_req.buffer = 20
    /\ Len(Visited) = 2 /\ Len(events_out) = 1
    /\ \E j \in DOMAIN Visited :
          /\ Visited[j].EndTime # NullTime
          /\ Min(Visited[j].EndTime, k_req.end) - Max(Visited[j].StartTime, k_req.start) = 10

\* ---------------------------------------------------------------------------
\* The end of the collection loop (lines 1051-1145)
\* ---------------------------------------------------------------------------
\* pageCount of the pagination metadata: the pages the listing fills
PageCount == (Len(k_wraps.all) + k_req.chunk - 1) \div k_req.chunk

\* C29: the collection loop ends. Every page it goes on from leaves fewer
\* events to fetch; it stops after a request that fails or brings no event,
\* after a page whose last event starts at or behind the buffered window end
\* and after the page the pagination metadata give as the last one; and with
\* pagination metadata it fetches no more pages than the page count (one page
\* when the listing is empty).
C29_CollectionEnds ==
    [][ /\ (k_pc = "fetch" /\ k_pc' = "wraps") =>
              /\ k_wraps'.page # <<>>
              /\ Len(k_wraps'.rest) < Len(k_wraps.rest)
        /\ (k_pc = "fetch" /\ k_pc' # k_pc /\ k_wraps'.page = <<>>) => k_pc' = "collected"
        /\ (k_pc = "wraps" /\ k_wraps.page = <<>> /\ k_pc' # k_pc) =>
              /\ k_wraps.last >= k_req.end + k_req.buffer => k_pc' = "collected"
              /\ (k_wraps.meta /\ k_wraps.pages >= PageCount) => k_pc' = "collected"
        /\ k_wraps.meta => k_wraps'.pages <= Max(1, PageCount)
      ]_vars

\* a listing of two pages with pagination metadata has been read to its end
C29_Witness ==
    /\ k_pc = "collected"
    /\ k_wraps.meta
    /\ k_wraps.pages = 2
    /\ PageCount = 2
    /\ k_wraps.rest = <<>>

\* ---------------------------------------------------------------------------
\* The alarm-queue directory: the poller downloads clips into it
\* (poll_zm_for_events.py, download_event_video) and the frame worker takes
\* them out of it (yolo8_analyze.py, watchdog_loop). Two processes, one
\* directory; a file is a name bound to an inode, as on a POSIX file system.
\* ---------------------------------------------------------------------------
qframe == <<pollvars, written, login_log, tempo, exportvars, countervars, clipvars>>

\* the poller is in its events loop, the directory is empty, the worker scans
QueueInit ==
    /\ now = 0
    /\ nvr = [e \in EventIds |-> NoEvent]
    /\ pc = "events"
    /\ events = <<>>
    /\ pend_list = <<>>
    /\ processed_ids = <<>>
    /\ pending_events = <<>>
    /\ file_timestamps = [c \in Cams |-> <<>>]
    /\ ev = NoEv
    /\ store_file = <<>>
    /\ access_token = "None"
    /\ TOKEN_EXPIRY = 1
    /\ AUTH_DISABLED = FALSE
    /\ evaluated = <<>>
    /\ written = <<>>
    /\ login_log = <<>>
    /\ AuxIdle
    /\ ExportIdle

\* poll_zm_for_events.py lines 257-270: the video request of the next event;
\* on status 200 the clip is opened for writing under its final name
QueueOpen ==
    /\ aq_dl.pc = "idle" /\ aq_dl.eid < MaxQueued
    /\ \/ /\ aq_dl' = [aq_dl EXCEPT !.eid = @ + 1]         \* not 200, or the request raises
          /\ UNCHANGED <<aq_files, aq_inodes>>
       \/ /\ aq_inodes' = Append(aq_inodes, [chunks |-> 0, writing |-> TRUE, whole |-> FALSE,
                                              mtime |-> aq_dl.clock + 1])
          /\ aq_files' = FileSet(aq_files, aq_dl.eid + 1, Len(aq_inodes) + 1)
          /\ aq_dl' = [pc |-> "writing", eid |-> aq_dl.eid + 1, inode |-> Len(aq_inodes) + 1,
                       left |-> ClipChunks, clock |-> aq_dl.clock + 1]
    /\ UNCHANGED <<aq_worker, qframe>>

\* lines 272-273: one chunk is written to the open file
QueueChunk ==
    /\ aq_dl.pc = "writing" /\ aq_dl.left > 0
    /\ aq_inodes' = [aq_inodes EXCEPT ![aq_dl.inode].chunks = @ + 1,
                                      ![aq_dl.inode].mtime = aq_dl.clock + 1]
    /\ aq_dl' = [aq_dl EXCEPT !.left = @ - 1, !.clock = @ + 1]
    /\ UNCHANGED <<aq_files, aq_worker, qframe>>

\* lines 271-281: the with block is left, after the last chunk or because the
\* stream raises; the file is closed and stays under its name
QueueEnd ==
    /\ aq_dl.pc = "writing"
    /\ \/ /\ aq_dl.left = 0
          /\ aq_inodes' = [aq_inodes EXCEPT ![aq_dl.inode].writing = FALSE,
                                            ![aq_dl.inode].whole = TRUE]
       \/ /\ aq_dl.left > 0
          /\ aq_inodes' = [aq_inodes EXCEPT ![aq_dl.inode].writing = FALSE]
    /\ aq_dl' = [aq_dl EXCEPT !.pc = "idle", !.inode = 0, !.left = 0]
    /\ UNCHANGED <<aq_files, aq_worker, qframe>>

\* yolo8_analyze.py lines 256-260: the *.mp4 file with the smallest mtime
get_oldest_video(folder, ino) ==
    CHOOSE e \in DOMAIN folder :
       \A x \in DOMAIN folder : ino[folder[e]].mtime <= ino[folder[x]].mtime

\* lines 271-275: the worker takes the oldest clip of the directory, if any
WorkerScan ==
    /\ aq_worker.pc = "scan"
    /\ DOMAIN aq_files # {}
    /\ LET e == get_oldest_video(aq_files, aq_inodes)
       IN aq_worker' = [pc |-> "process", eid |-> e, inode |-> aq_files[e]]
    /\ UNCHANGED <<aq_files, aq_inodes, aq_dl, qframe>>

\* lines 277-283: process_video reads the clip; whether it raises or not, the
\* finally clause comes next
WorkerProcess ==
    /\ aq_worker.pc = "process"
    /\ aq_worker' = [aq_worker EXCEPT !.pc = "remove"]
    /\ UNCHANGED <<aq_files, aq_inodes, aq_dl, qframe>>

\* lines 284-288: os.remove takes the name out of the directory; a writer
\* that has the file open goes on writing to the inode
WorkerRemove ==
    /\ aq_worker.pc = "remove"
    /\ aq_files' = [x \in DOMAIN aq_files \ {aq_worker.eid} |-> aq_files[x]]
    /\ aq_worker' = NoWorker
    /\ UNCHANGED <<aq_inodes, aq_dl, qframe>>

QueueNext ==
    \/ QueueOpen
    \/ QueueChunk
    \/ QueueEnd
    \/ WorkerScan
    \/ WorkerProcess
    \/ WorkerRemove

SpecQueue == QueueInit /\ [][QueueNext]_vars

\* C30: a clip the frame worker has taken, analyses or deletes is not being
\* written by the poller and is a completely downloaded file.
C30_WorkerTakesWholeClips ==
    aq_worker.pc \in {"process", "remove"} =>
       /\ ~aq_inodes[aq_worker.inode].writing
       /\ aq_inodes[aq_worker.inode].whole

====
